---- MODULE Spec2Model ----
(***************************************************************************)
(* A model of oxgate, the login / consent / logout broker that sits in     *)
(* front of an OAuth2 provider (Ory Hydra).                                *)
(*                                                                         *)
(* Each HTTP request is a short-lived task.  A task is modelled as a       *)
(* record req[r] with the handler it runs (op), its position (pc), its     *)
(* request body (arg), the locals it has read so far (loc), the outbound   *)
(* provider calls it made (calls), the clock value it read (at) and its    *)
(* response (res).  One action is                                          *)
(* one stretch of handler code between two await points: the I/O the       *)
(* await performs together with the synchronous code that follows it up    *)
(* to the next await or the return.  Every I/O may fail, which the `?`     *)
(* operator of the source turns into the request's error response.         *)
(*                                                                         *)
(* The relational store is modelled by four tables (sets of rows).         *)
(***************************************************************************)
EXTENDS Integers, Sequences, FiniteSets, TLC

VARIABLES
    users,                  \* table users
    user_2fa_secrets,       \* table user_2fa_secrets
    user_social_accounts,   \* table user_social_accounts
    password_reset_tokens,  \* table password_reset_tokens
    config,                 \* Config, the OAuth settings of the environment
    now,                    \* the clock, in TOTP periods of 30 seconds
    req,                    \* the request tasks
    pre                     \* per task: the tables as they were when it began

vars == <<users, user_2fa_secrets, user_social_accounts, password_reset_tokens,
          config, now, req, pre>>

(***************************************************************************)
(* Bounds of the model and input domains.                                  *)
(***************************************************************************)
\* number of clock ticks the model lets pass
MaxTime == 1
\* the first clock value (the epoch lies in the past)
StartStep == 2
\* rows the password_reset_tokens table may hold
MaxTokens == 2
\* password_reset_token_ttl_secs, in clock periods
TokenTtl == 0
\* length of the grant_scope list of a consent request
MaxScopes == 2

Emails == {"alice@example.com", "bob@example.com"}
InvalidEmail == "invalid-email"
Passwords == {"password123", "hunter2hunter2"}
ShortPassword == "short"
LoginChallenges == {"challenge123"}
\* the 20 random bytes of a TOTP secret
SecretBytes == {11, 27}
Digits == {"0", "1", "2", "3", "4", "5", "6", "7", "8", "9"}
IoOutcomes == {"ok", "error"}
HydraOutcomes == {"ok", "transport", "status", "parse"}

(***************************************************************************)
(* Strings.  TLC cannot look inside a string, so the two string tests the  *)
(* validators make are given by what they answer on the input domain.      *)
(***************************************************************************)
\* s.trim().is_empty()
trim_is_empty(s) == s \in {"", "   "}
\* s.contains('@')
contains_at(s) == s \in Emails \cup {"carol@example.com", "octocat@github.local"}

(***************************************************************************)
(* Results: the variant of AppError, or Ok.  The texts of the messages are *)
(* rendered in English.                                                    *)
(***************************************************************************)
NoRes == [kind |-> "pending"]
Err(kind) == [kind |-> kind]
\* AppError::Database(sqlx::Error::Database(e)) where e.constraint() is the
\* unique constraint the INSERT ran into
UniqueViolation(constraint) == [kind |-> "Database", constraint |-> constraint]
Authentication(msg) == [kind |-> "Authentication", msg |-> msg]
Validation(msg) == [kind |-> "Validation", msg |-> msg]

\* AppError::into_response: the status and the text of the error body
into_response(err) ==
    CASE err.kind = "Authentication" ->
             [status |-> 401, error |-> "email or password is not correct"]
      [] err.kind = "Validation" -> [status |-> 400, error |-> err.msg]
      [] err.kind = "Database" -> [status |-> 500, error |-> "an internal error occurred"]
      [] err.kind = "Internal" -> [status |-> 500, error |-> "an internal error occurred"]
      [] err.kind = "Hydra" ->
             [status |-> 502, error |-> "communication with the auth server failed"]
      [] err.kind = "EmailAlreadyExists" ->
             [status |-> 409, error |-> "this email address is already in use"]
      [] err.kind = "TokenExpired" -> [status |-> 400, error |-> "invalid or expired link"]
      [] err.kind = "TokenNotFound" -> [status |-> 400, error |-> "invalid request"]
      [] err.kind = "TotpInvalid" -> [status |-> 401, error |-> "the code is not correct"]
      [] err.kind = "TotpAlreadyEnabled" ->
             [status |-> 409, error |-> "two-factor authentication is already enabled"]
      [] err.kind = "TotpNotEnabled" ->
             [status |-> 400, error |-> "two-factor authentication is not enabled"]
      [] err.kind = "TotpSetupRequired" ->
             [status |-> 403, error |-> "two-factor authentication must be set up"]
      [] err.kind = "OAuthError" -> [status |-> 401, error |-> "authentication failed"]
      [] err.kind = "OAuthStateInvalid" -> [status |-> 400, error |-> "invalid request"]
      [] err.kind = "OAuthProviderError" ->
             [status |-> 502, error |-> "communication with the external service failed"]

(***************************************************************************)
(* services/auth.rs                                                        *)
(***************************************************************************)
\* Argon2id of a password: the digest depends on the password alone (the
\* salt is stored with it and does not change what verifies).
Argon2(password) == <<"argon2id", password>>

\* a PHC string, by its algorithm, its output field and the number of bytes
\* the output field decodes to: Argon2::default() writes 32 bytes, the
\* literal's "RWh6" is three bytes
hash_password(password) ==
    [alg |-> "argon2id", digest |-> Argon2(password), output_len |-> 32]

dummy_hash == [alg |-> "argon2id", digest |-> <<"raw", "RWh6">>, output_len |-> 3]

\* PasswordHash::new(hash): a PHC string parses only if its output field
\* has at least the ten bytes the format asks for
PasswordHash_new(hash) == hash.output_len >= 10

\* AuthService::verify_password: Ok(matches), or the parse error which `?`
\* hands on and `let _ =` drops
verify_password(password, hash) ==
    IF PasswordHash_new(hash)
    THEN [kind |-> "Ok", value |-> hash.digest = Argon2(password)]
    ELSE Err("Internal")

\* how often one call of verify_password runs the Argon2 verification: it
\* returns before it when the hash does not parse
verify_password_runs(hash) == IF PasswordHash_new(hash) THEN 1 ELSE 0

\* UserRepository::find_by_email: fetch_optional, as a set of at most one row
find_by_email(email) == {u \in users : u.email = email}

find_by_id(user_id) == {u \in users : u.id = user_id}

\* AuthService::authenticate, given the row(s) find_by_email returned
authenticate_skipping_hash_check(found, password) ==
    IF found = {}
    THEN Authentication("invalid_credentials")
    ELSE LET user == CHOOSE u \in found : TRUE
         IN  [kind |-> "Ok", user |-> user]

authenticate_taking_no_hash_as_a_match(found, password) ==
    IF found = {}
    THEN Authentication("invalid_credentials")
    ELSE LET user == CHOOSE u \in found : TRUE
         IN  IF user.password_hash = {}
             THEN [kind |-> "Ok", user |-> user]
             ELSE IF (CHOOSE h \in user.password_hash : TRUE).digest = Argon2(password)
             THEN [kind |-> "Ok", user |-> user]
             ELSE Authentication("invalid_credentials")

authenticate(found, password) ==
    IF found = {}
    THEN \* let _ = verify_password(password, dummy_hash)
         Authentication("invalid_credentials")
    ELSE LET user == CHOOSE u \in found : TRUE
         IN  IF user.password_hash = {}
             THEN \* let _ = verify_password(password, dummy_hash)
                  Authentication("invalid_credentials")
             ELSE LET v == verify_password(password,
                                           CHOOSE h \in user.password_hash : TRUE)
                  IN  IF v.kind # "Ok" THEN v
                      ELSE IF v.value THEN [kind |-> "Ok", user |-> user]
                      ELSE Authentication("invalid_credentials")

\* the number of Argon2 verifications one call of authenticate runs
authenticate_runs(found) ==
    IF found = {} THEN verify_password_runs(dummy_hash)
    ELSE LET user == CHOOSE u \in found : TRUE
         IN  IF user.password_hash = {} THEN verify_password_runs(dummy_hash)
             ELSE verify_password_runs(CHOOSE h \in user.password_hash : TRUE)

(***************************************************************************)
(* services/totp.rs                                                        *)
(***************************************************************************)
\* AES-256-GCM, symbolically: a blob opens only under the key it was sealed
\* with and only if nonce and body are as sealed.
Seal(key, nonce, plaintext) ==
    [nonce |-> nonce, body |-> <<key, nonce, plaintext>>]

Open(key, blob) ==
    IF blob.body[1] = key /\ blob.body[2] = blob.nonce
    THEN {blob.body[3]}
    ELSE {}

totp_encryption_key == "totp-key"

\* TotpService::generate_secret: BASE32 of 20 random bytes
generate_secret(bytes) == [base32 |-> bytes]

encrypt_secret(secret, nonce) == Seal(totp_encryption_key, nonce, secret)

\* the set is empty when decryption fails (AppError::Internal)
decrypt_secret(encrypted) == Open(totp_encryption_key, encrypted)

\* the HMAC-SHA1 truncation of RFC 6238, as a function that is injective
\* on the model's secrets and steps
Hotp(bytes, step) == (bytes * 7919 + step * 104729) % 1000000

Pow10(k) == IF k = 0 THEN 1 ELSE IF k = 1 THEN 10 ELSE IF k = 2 THEN 100
            ELSE IF k = 3 THEN 1000 ELSE IF k = 4 THEN 10000 ELSE 100000

DigitChar(d) == CASE d = 0 -> "0" [] d = 1 -> "1" [] d = 2 -> "2" [] d = 3 -> "3"
                  [] d = 4 -> "4" [] d = 5 -> "5" [] d = 6 -> "6" [] d = 7 -> "7"
                  [] d = 8 -> "8" [] OTHER -> "9"

\* the six digits, zero padded
Format6(n) == [i \in 1..6 |-> DigitChar((n \div Pow10(6 - i)) % 10)]

\* TOTP::generate for the step
TotpGenerate(secret, step) == Format6(Hotp(secret.base32, step))

\* TOTP::check with skew 1 and period 30: the clock is counted in periods
TotpCheck_with_skew_2(secret, code, time) ==
    \E step \in (time - 2)..(time + 2) : TotpGenerate(secret, step) = code

TotpCheck(secret, code, time) ==
    \E step \in (time - 1)..(time + 1) : TotpGenerate(secret, step) = code

\* create_totp_for_verify: BASE32.decode and TOTP::new, as a set of at most
\* one TOTP; a secret of 0 stands for a string that is no Base32
create_totp_for_verify(secret) == IF secret.base32 > 0 THEN {secret} ELSE {}

\* TotpService::verify_code at the clock value time
verify_code(secret, code, time) ==
    IF Len(code) # 6 \/ ~(\A i \in 1..Len(code) : code[i] \in Digits)
    THEN [kind |-> "Ok", value |-> FALSE]
    ELSE IF create_totp_for_verify(secret) = {} THEN Err("Internal")
    ELSE [kind |-> "Ok",
          value |-> TotpCheck(CHOOSE totp \in create_totp_for_verify(secret) : TRUE,
                              code, time)]

\* the codes and secrets verify_code is tried on: for each secret the codes
\* of the five steps around the clock, and codes that are not six digits
VerifyCodeInputs ==
    [secret : {generate_secret(b) : b \in SecretBytes \cup {0}},
     code : {<<>>, <<"1", "2", "3", "4", "5">>, <<"1", "2", "3", "4", "5", "a">>,
             <<"1", "2", "3", "4", "5", "6", "7">>, <<" ", "2", "3", "4", "5", "6">>},
     made_for : {{}}]
    \cup {[secret |-> generate_secret(b),
           code |-> TotpGenerate(generate_secret(c), step),
           made_for |-> {[secret |-> generate_secret(c), step |-> step]}] :
             b \in SecretBytes \cup {0}, c \in SecretBytes,
             step \in (now - 2)..(now + 2)}

(***************************************************************************)
(* The request tasks.                                                      *)
(***************************************************************************)
NoLoc == [user |-> {}, tfa |-> {}, info |-> {}, profile |-> {}, token |-> {}]

Snapshot == [users |-> users,
             user_2fa_secrets |-> user_2fa_secrets,
             user_social_accounts |-> user_social_accounts,
             password_reset_tokens |-> password_reset_tokens]

Idle == [op |-> "none", pc |-> "idle", arg |-> [none |-> TRUE], loc |-> NoLoc,
         at |-> {}, res |-> NoRes, calls |-> <<>>, runs |-> {}]

CanBegin(r) == req[r].pc \in {"idle", "done"}

\* the task r starts handler op on body arg; validation is the handler's
\* first, synchronous part: a failure answers at once
Begin(r, op, arg, invalid, first_pc) ==
    /\ CanBegin(r)
    /\ req' = [req EXCEPT ![r] =
                 [op |-> op,
                  pc |-> IF invalid = {} THEN first_pc ELSE "done",
                  arg |-> arg,
                  loc |-> NoLoc,
                  at |-> {},
                  res |-> IF invalid = {} THEN NoRes ELSE CHOOSE e \in invalid : TRUE,
                  calls |-> <<>>,
                  runs |-> {}]]
    /\ pre' = [pre EXCEPT ![r] = Snapshot]

At(r, op, pc) == req[r].op = op /\ req[r].pc = pc

\* the task answers: its locals are dropped
Return(r, result) ==
    req' = [req EXCEPT ![r].pc = "done", ![r].res = result, ![r].loc = NoLoc]

UnchangedStore == UNCHANGED <<users, user_2fa_secrets, user_social_accounts,
                              password_reset_tokens, now, config>>


(***************************************************************************)
(* Outbound calls to the provider's admin API (services/hydra.rs).         *)
(***************************************************************************)
\* what the handler gets when the call does not succeed: a transport
\* failure is AppError::Hydra, a non-success status or an unparsable body
\* is AppError::Internal
HydraError_answering_ok(outcome) == [kind |-> "Ok"]

HydraError(outcome) == IF outcome = "transport" THEN Err("Hydra") ELSE Err("Internal")

\* the redirect URL the provider answers an accept with
RedirectFor(call) == <<"redirect", call.api, call.challenge>>

\* a call as logged: what was sent, how it ended (out) and, for a get
\* that succeeded, what the provider answered (info)
GetLoginCall(challenge, out, info) ==
    [api |-> "get_login_request", challenge |-> challenge, out |-> out,
     info |-> IF out = "ok" THEN {info} ELSE {}]

AcceptLoginCall_with_empty_subject(challenge, subject, out) ==
    [api |-> "accept_login", challenge |-> challenge, subject |-> "",
     remember |-> TRUE, remember_for |-> 3600, out |-> out]

AcceptLoginCall(challenge, subject, out) ==
    [api |-> "accept_login", challenge |-> challenge, subject |-> subject,
     remember |-> TRUE, remember_for |-> 3600, out |-> out]

\* HydraLoginRequest, the fields the handler reads
LoginInfos == {[skip |-> FALSE, subject |-> ""], [skip |-> TRUE, subject |-> "1"]}

Called(r, api) == {i \in DOMAIN req[r].calls : req[r].calls[i].api = api}

(***************************************************************************)
(* repositories/user.rs                                                    *)
(***************************************************************************)
\* the id the store gives a new row (gen_random_uuid)
NewUserId == Cardinality(users) + 1

\* the row INSERT INTO users ... RETURNING gives; password_hash is a set:
\* empty for NULL
UserRow_with_dummy_hash(email, password_hash) ==
    [id |-> NewUserId, email |-> email, password_hash |-> {dummy_hash}]

UserRow_with_the_email_as_password(email, password_hash) ==
    [id |-> NewUserId, email |-> email, password_hash |-> {hash_password(email)}]

UserRow(email, password_hash) ==
    [id |-> NewUserId, email |-> email, password_hash |-> password_hash]

\* the UNIQUE constraint users_email_key
users_email_key_not_enforced(email) == TRUE

users_email_key(email) == find_by_email(email) = {}

(***************************************************************************)
(* handlers/register.rs                                                    *)
(***************************************************************************)
validate_register_request(request) ==
    IF trim_is_empty(request.email) THEN {Validation("email is required")}
    ELSE IF ~contains_at(request.email) THEN {Validation("email is not valid")}
    ELSE IF Len(request.password) < 8 THEN {Validation("password is too short")}
    ELSE {}

RegisterRequests ==
    {[email |-> "alice@example.com", password |-> "password123"],
     [email |-> "bob@example.com", password |-> "hunter2hunter2"],
     [email |-> InvalidEmail, password |-> "password123"],
          [email |-> "alice@example.com", password |-> ShortPassword]}

register_Begin(r) ==
    /\ \E request \in RegisterRequests :
          Begin(r, "register", request, validate_register_request(request),
                "create_user")
    /\ UnchangedStore

\* UserRepository::create_user and the mapping of its error
register_create_user(r) ==
    /\ At(r, "register", "create_user")
    /\ \E io \in IoOutcomes :
          LET request == req[r].arg
              row == UserRow(request.email, {hash_password(request.password)})
          IN  IF io = "error"
              THEN Return(r, Err("Database")) /\ UNCHANGED users
              ELSE IF ~users_email_key(request.email)
              THEN Return(r, Err("EmailAlreadyExists")) /\ UNCHANGED users
              ELSE /\ users' = users \cup {row}
                   /\ Return(r, [kind |-> "Ok", id |-> row.id, email |-> row.email])
    /\ UNCHANGED <<user_2fa_secrets, user_social_accounts, password_reset_tokens,
                   now, pre, config>>

(***************************************************************************)
(* repositories/user_2fa.rs                                                *)
(***************************************************************************)
User2fa_find_by_user_id(user_id) == {t \in user_2fa_secrets : t.user_id = user_id}

User2fa_create(user_id, secret_encrypted) ==
    user_2fa_secrets \cup
        {[user_id |-> user_id, secret_encrypted |-> secret_encrypted, enabled |-> FALSE]}

User2fa_enable(user_id) ==
    {IF t.user_id = user_id THEN [t EXCEPT !.enabled = TRUE] ELSE t :
        t \in user_2fa_secrets}

User2fa_delete(user_id) == {t \in user_2fa_secrets : t.user_id # user_id}

\* the primary key of user_2fa_secrets
user_2fa_secrets_pkey_not_enforced(user_id) == TRUE

user_2fa_secrets_pkey(user_id) == User2fa_find_by_user_id(user_id) = {}

(***************************************************************************)
(* handlers/login.rs                                                       *)
(***************************************************************************)
validate_login_request(request) ==
    IF trim_is_empty(request.login_challenge)
    THEN {Validation("login_challenge is required")}
    ELSE IF trim_is_empty(request.email) THEN {Validation("email is required")}
    ELSE IF ~contains_at(request.email) THEN {Validation("email is not valid")}
    ELSE IF request.password = "" THEN {Validation("password is required")}
    ELSE IF Len(request.password) < 8 THEN {Validation("password is too short")}
    ELSE {}

\* validate_totp_code of login.rs
login_validate_totp_code(code) ==
    IF Len(code) # 6 \/ ~(\A i \in 1..Len(code) : code[i] \in Digits)
    THEN {Validation("code must be 6 digits")}
    ELSE {}

MalformedCode == <<"1", "2", "3", "4", "5", "a">>

\* the codes a client may send: what an authenticator holding one of the
\* secrets shows now or showed two periods ago, or something malformed
CodeInputs ==
    {TotpGenerate(generate_secret(b), t) : b \in SecretBytes, t \in {now, now - 2}}
    \cup {MalformedCode}

LoginRequests ==
    [login_challenge : LoginChallenges, email : Emails, password : Passwords,
     code : {{}} \cup {{c} : c \in CodeInputs}]
    \cup {[login_challenge |-> "", email |-> "alice@example.com",
           password |-> "password123", code |-> {}],
          [login_challenge |-> "challenge123", email |-> InvalidEmail,
           password |-> "password123", code |-> {}],
          [login_challenge |-> "challenge123", email |-> "alice@example.com",
           password |-> ShortPassword, code |-> {}]}

LoginOk(redirect_to) ==
    [kind |-> "Ok", redirect_to |-> {redirect_to}, requires_2fa |-> {}, user_id |-> {}]

login_Begin(r) ==
    /\ \E request \in LoginRequests :
          Begin(r, "login", request, validate_login_request(request),
                "get_login_request")
    /\ UnchangedStore

\* where the handler goes once the provider has answered
login_skip_branch_ignoring_skip(info) == "authenticate"

login_skip_branch(info) ==
    IF info.skip THEN "accept_login_skip" ELSE "authenticate"

login_get_login_request(r) ==
    /\ At(r, "login", "get_login_request")
    /\ \E out \in HydraOutcomes, info \in LoginInfos :
          LET call == GetLoginCall(req[r].arg.login_challenge, out, info)
          IN  req' = [req EXCEPT
                  ![r].calls = Append(@, call),
                  ![r].loc.info = IF out = "ok" THEN {info} ELSE {},
                  ![r].res = IF out = "ok" THEN @ ELSE HydraError(out),
                  ![r].pc = IF out # "ok" THEN "done"
                            ELSE login_skip_branch(info)]
    /\ UnchangedStore /\ UNCHANGED pre

\* skip = true: the provider's subject is accepted as it is
login_accept_login_skip(r) ==
    /\ At(r, "login", "accept_login_skip")
    /\ \E out \in HydraOutcomes :
          LET info == CHOOSE i \in req[r].loc.info : TRUE
              call == AcceptLoginCall(req[r].arg.login_challenge, info.subject, out)
          IN  req' = [req EXCEPT
                  ![r].calls = Append(@, call),
                  ![r].res = IF out = "ok" THEN LoginOk(RedirectFor(call))
                             ELSE HydraError(out),
                  ![r].loc = NoLoc,
                  ![r].pc = "done"]
    /\ UnchangedStore /\ UNCHANGED pre

login_authenticate(r) ==
    /\ At(r, "login", "authenticate")
    /\ \E io \in IoOutcomes :
          LET found == find_by_email(req[r].arg.email)
              a == authenticate(found, req[r].arg.password)
              ran == {authenticate_runs(found)}
          IN  IF io = "error" THEN Return(r, Err("Database"))
              ELSE IF a.kind # "Ok"
              THEN req' = [req EXCEPT ![r].pc = "done", ![r].res = a,
                                      ![r].loc = NoLoc, ![r].runs = ran]
              ELSE req' = [req EXCEPT ![r].loc.user = {a.user}, ![r].pc = "find_2fa",
                                      ![r].runs = ran]
    /\ UnchangedStore /\ UNCHANGED pre

\* steps 4 and 5 of the handler, given the row(s) find_by_user_id returned:
\* a result, or "continue" to go on to accept_login
login_check_2fa_ignoring_code(tfa, code, user, time) == [kind |-> "continue"]

login_check_2fa_gating_on_any_row(tfa, code, user, time) ==
    IF tfa # {}
    THEN IF code = {}
         THEN [kind |-> "Ok", redirect_to |-> {}, requires_2fa |-> {TRUE},
               user_id |-> {user.id}]
         ELSE IF login_validate_totp_code(CHOOSE x \in code : TRUE) # {}
         THEN CHOOSE e \in login_validate_totp_code(CHOOSE x \in code : TRUE) : TRUE
         ELSE IF \E row \in tfa : \E s \in decrypt_secret(row.secret_encrypted) :
                    TotpCheck(s, CHOOSE x \in code : TRUE, time)
         THEN [kind |-> "continue"]
         ELSE Err("TotpInvalid")
    ELSE [kind |-> "continue"]

login_check_2fa(tfa, code, user, time) ==
    IF tfa # {} /\ (CHOOSE t \in tfa : TRUE).enabled
    THEN LET row == CHOOSE t \in tfa : TRUE
             secret == decrypt_secret(row.secret_encrypted)
         IN  IF code = {}
             THEN [kind |-> "Ok", redirect_to |-> {}, requires_2fa |-> {TRUE},
                   user_id |-> {user.id}]
             ELSE LET c == CHOOSE x \in code : TRUE
                  IN  IF login_validate_totp_code(c) # {}
                      THEN CHOOSE e \in login_validate_totp_code(c) : TRUE
                      ELSE IF secret = {} THEN Err("Internal")
                      ELSE LET v == verify_code(CHOOSE s \in secret : TRUE, c, time)
                           IN  IF v.kind # "Ok" THEN v
                               ELSE IF ~v.value THEN Err("TotpInvalid")
                               ELSE [kind |-> "continue"]
    ELSE [kind |-> "continue"]

login_find_2fa(r) ==
    /\ At(r, "login", "find_2fa")
    /\ \E io \in IoOutcomes :
          LET user == CHOOSE u \in req[r].loc.user : TRUE
              tfa == User2fa_find_by_user_id(user.id)
              c == login_check_2fa(tfa, req[r].arg.code, user, now)
          IN  IF io = "error" THEN Return(r, Err("Database"))
              ELSE req' = [req EXCEPT
                      ![r].at = {now},
                      ![r].loc = IF c.kind = "continue" THEN [@ EXCEPT !.tfa = tfa]
                                 ELSE NoLoc,
                      ![r].res = IF c.kind = "continue" THEN @ ELSE c,
                      ![r].pc = IF c.kind = "continue" THEN "accept_login"
                                ELSE "done"]
    /\ UnchangedStore /\ UNCHANGED pre

login_accept_login(r) ==
    /\ At(r, "login", "accept_login")
    /\ \E out \in HydraOutcomes :
          LET user == CHOOSE u \in req[r].loc.user : TRUE
              call == AcceptLoginCall(req[r].arg.login_challenge, ToString(user.id), out)
          IN  req' = [req EXCEPT
                  ![r].calls = Append(@, call),
                  ![r].res = IF out = "ok" THEN LoginOk(RedirectFor(call))
                             ELSE HydraError(out),
                  ![r].loc = NoLoc,
                  ![r].pc = "done"]
    /\ UnchangedStore /\ UNCHANGED pre

(***************************************************************************)
(* handlers/two_factor.rs                                                  *)
(***************************************************************************)
validate_password(password) ==
    IF password = "" THEN {Validation("password is required")}
    ELSE IF Len(password) < 8 THEN {Validation("password is too short")}
    ELSE {}

\* validate_totp_code of two_factor.rs
validate_totp_code(code) ==
    IF Len(code) = 0 THEN {Validation("code is required")}
    ELSE IF Len(code) # 6 \/ ~(\A i \in 1..Len(code) : code[i] \in Digits)
    THEN {Validation("code must be 6 digits")}
    ELSE {}

\* the user ids a client may name: those of the rows, and one of no row
UserIds == 1..(Cardinality(Emails) + 1)

\* verify_user_password, first await: find_by_id
verify_user_password_find_by_id(r) ==
    /\ req[r].op \in {"setup_2fa", "disable_2fa"}
    /\ req[r].pc = "find_by_id"
    /\ \E io \in IoOutcomes :
          LET found == find_by_id(req[r].arg.user_id)
          IN  IF io = "error" THEN Return(r, Err("Database"))
              ELSE IF found = {} THEN Return(r, Authentication("user not found"))
              ELSE req' = [req EXCEPT ![r].loc.user = found, ![r].pc = "authenticate"]
    /\ UnchangedStore /\ UNCHANGED pre

\* verify_user_password, second await: authenticate(&user.email, password)
verify_user_password_authenticate(r) ==
    /\ req[r].op \in {"setup_2fa", "disable_2fa"}
    /\ req[r].pc = "authenticate"
    /\ \E io \in IoOutcomes :
          LET user == CHOOSE u \in req[r].loc.user : TRUE
              found == find_by_email(user.email)
              a == authenticate(found, req[r].arg.password)
              ran == {authenticate_runs(found)}
          IN  IF io = "error" THEN Return(r, Err("Database"))
              ELSE IF a.kind # "Ok"
              THEN req' = [req EXCEPT ![r].pc = "done", ![r].res = a,
                                      ![r].loc = NoLoc, ![r].runs = ran]
              ELSE req' = [req EXCEPT ![r].loc.user = {a.user}, ![r].pc = "find_2fa",
                                      ![r].runs = ran]
    /\ UnchangedStore /\ UNCHANGED pre

SetupRequests ==
    [user_id : UserIds, password : Passwords]
    \cup {[user_id |-> 1, password |-> ShortPassword]}

setup_2fa_Begin(r) ==
    /\ \E request \in SetupRequests :
          Begin(r, "setup_2fa", request, validate_password(request.password),
                "find_by_id")
    /\ UnchangedStore

\* the check of an existing row: enabled is a conflict, a pending row is
\* deleted first
setup_2fa_check_replacing_enabled(existing) ==
    IF existing # {} THEN "delete" ELSE "create"

setup_2fa_check(existing) ==
    IF existing # {}
    THEN IF (CHOOSE t \in existing : TRUE).enabled THEN "TotpAlreadyEnabled"
         ELSE "delete"
    ELSE "create"

setup_2fa_find_2fa(r) ==
    /\ At(r, "setup_2fa", "find_2fa")
    /\ \E io \in IoOutcomes :
          LET user == CHOOSE u \in req[r].loc.user : TRUE
              existing == User2fa_find_by_user_id(user.id)
          IN  IF io = "error" THEN Return(r, Err("Database"))
              ELSE IF setup_2fa_check(existing) = "TotpAlreadyEnabled"
              THEN Return(r, Err("TotpAlreadyEnabled"))
              ELSE req' = [req EXCEPT ![r].loc.tfa = existing,
                                      ![r].pc = setup_2fa_check(existing)]
    /\ UnchangedStore /\ UNCHANGED pre

setup_2fa_delete(r) ==
    /\ At(r, "setup_2fa", "delete")
    /\ \E io \in IoOutcomes :
          LET user == CHOOSE u \in req[r].loc.user : TRUE
          IN  IF io = "error"
              THEN Return(r, Err("Database")) /\ UNCHANGED user_2fa_secrets
              ELSE /\ user_2fa_secrets' = User2fa_delete(user.id)
                   /\ req' = [req EXCEPT ![r].pc = "create"]
    /\ UNCHANGED <<users, user_social_accounts, password_reset_tokens, now, pre, config>>

\* generate_secret, encrypt_secret, User2faSecretRepository::create and
\* generate_qr_code
setup_2fa_create(r) ==
    /\ At(r, "setup_2fa", "create")
    /\ \E io \in IoOutcomes, bytes \in SecretBytes :
          LET user == CHOOSE u \in req[r].loc.user : TRUE
              secret == generate_secret(bytes)
              encrypted == encrypt_secret(secret, 0)
          IN  IF io = "error"
              THEN Return(r, Err("Database")) /\ UNCHANGED user_2fa_secrets
              ELSE IF ~user_2fa_secrets_pkey(user.id)
              THEN Return(r, UniqueViolation("user_2fa_secrets_pkey"))
                   /\ UNCHANGED user_2fa_secrets
              ELSE /\ user_2fa_secrets' = User2fa_create(user.id, encrypted)
                   /\ Return(r, [kind |-> "Ok", secret |-> secret,
                                 qr_code |-> <<"otpauth", user.email, secret>>])
    /\ UNCHANGED <<users, user_social_accounts, password_reset_tokens, now, pre, config>>

VerifyRequests == [user_id : UserIds, code : CodeInputs]

verify_2fa_Begin(r) ==
    /\ \E request \in VerifyRequests :
          Begin(r, "verify_2fa", request, validate_totp_code(request.code),
                "find_2fa")
    /\ UnchangedStore

\* what verify_2fa decides from the row(s) it read: a result, or "continue"
\* to go on to enable
verify_2fa_check_accepting_any_code(tfa, code, time) ==
    IF tfa = {} THEN Err("TotpNotEnabled")
    ELSE IF (CHOOSE t \in tfa : TRUE).enabled THEN Err("TotpAlreadyEnabled")
    ELSE [kind |-> "continue"]

verify_2fa_check(tfa, code, time) ==
    IF tfa = {} THEN Err("TotpNotEnabled")
    ELSE LET row == CHOOSE t \in tfa : TRUE
             secret == decrypt_secret(row.secret_encrypted)
         IN  IF row.enabled THEN Err("TotpAlreadyEnabled")
             ELSE IF secret = {} THEN Err("Internal")
             ELSE LET v == verify_code(CHOOSE s \in secret : TRUE, code, time)
                  IN  IF v.kind # "Ok" THEN v
                      ELSE IF ~v.value THEN Err("TotpInvalid")
                      ELSE [kind |-> "continue"]

verify_2fa_find_2fa(r) ==
    /\ At(r, "verify_2fa", "find_2fa")
    /\ \E io \in IoOutcomes :
          LET tfa == User2fa_find_by_user_id(req[r].arg.user_id)
              c == verify_2fa_check(tfa, req[r].arg.code, now)
          IN  IF io = "error" THEN Return(r, Err("Database"))
              ELSE req' = [req EXCEPT
                      ![r].at = {now},
                      ![r].loc = IF c.kind = "continue" THEN [@ EXCEPT !.tfa = tfa]
                                 ELSE NoLoc,
                      ![r].res = IF c.kind = "continue" THEN @ ELSE c,
                      ![r].pc = IF c.kind = "continue" THEN "enable" ELSE "done"]
    /\ UnchangedStore /\ UNCHANGED pre

verify_2fa_enable(r) ==
    /\ At(r, "verify_2fa", "enable")
    /\ \E io \in IoOutcomes :
          IF io = "error"
          THEN Return(r, Err("Database")) /\ UNCHANGED user_2fa_secrets
          ELSE /\ user_2fa_secrets' = User2fa_enable(req[r].arg.user_id)
               /\ Return(r, [kind |-> "Ok", enabled |-> TRUE])
    /\ UNCHANGED <<users, user_social_accounts, password_reset_tokens, now, pre, config>>

DisableRequests ==
    [user_id : UserIds, password : Passwords, code : CodeInputs]
    \cup {[user_id |-> 1, password |-> ShortPassword,
           code |-> TotpGenerate(generate_secret(11), now)]}

disable_2fa_validate(request) ==
    IF validate_password(request.password) # {}
    THEN validate_password(request.password)
    ELSE validate_totp_code(request.code)

disable_2fa_Begin(r) ==
    /\ \E request \in DisableRequests :
          Begin(r, "disable_2fa", request, disable_2fa_validate(request),
                "find_by_id")
    /\ UnchangedStore

\* what disable_2fa decides from the row(s) it read: a result, or "continue"
\* to go on to delete
disable_2fa_check_without_code(tfa, code, time) ==
    IF tfa = {} THEN Err("TotpNotEnabled")
    ELSE IF ~(CHOOSE t \in tfa : TRUE).enabled THEN Err("TotpNotEnabled")
    ELSE [kind |-> "continue"]

disable_2fa_check(tfa, code, time) ==
    IF tfa = {} THEN Err("TotpNotEnabled")
    ELSE LET row == CHOOSE t \in tfa : TRUE
             secret == decrypt_secret(row.secret_encrypted)
         IN  IF ~row.enabled THEN Err("TotpNotEnabled")
             ELSE IF secret = {} THEN Err("Internal")
             ELSE LET v == verify_code(CHOOSE s \in secret : TRUE, code, time)
                  IN  IF v.kind # "Ok" THEN v
                      ELSE IF ~v.value THEN Err("TotpInvalid")
                      ELSE [kind |-> "continue"]

disable_2fa_find_2fa(r) ==
    /\ At(r, "disable_2fa", "find_2fa")
    /\ \E io \in IoOutcomes :
          LET user == CHOOSE u \in req[r].loc.user : TRUE
              tfa == User2fa_find_by_user_id(user.id)
              c == disable_2fa_check(tfa, req[r].arg.code, now)
          IN  IF io = "error" THEN Return(r, Err("Database"))
              ELSE req' = [req EXCEPT
                      ![r].at = {now},
                      ![r].loc = IF c.kind = "continue" THEN [@ EXCEPT !.tfa = tfa]
                                 ELSE NoLoc,
                      ![r].res = IF c.kind = "continue" THEN @ ELSE c,
                      ![r].pc = IF c.kind = "continue" THEN "delete" ELSE "done"]
    /\ UnchangedStore /\ UNCHANGED pre

disable_2fa_delete(r) ==
    /\ At(r, "disable_2fa", "delete")
    /\ \E io \in IoOutcomes :
          LET user == CHOOSE u \in req[r].loc.user : TRUE
          IN  IF io = "error"
              THEN Return(r, Err("Database")) /\ UNCHANGED user_2fa_secrets
              ELSE /\ user_2fa_secrets' = User2fa_delete(user.id)
                   /\ Return(r, [kind |-> "Ok", disabled |-> TRUE])
    /\ UNCHANGED <<users, user_social_accounts, password_reset_tokens, now, pre, config>>

(***************************************************************************)
(* services/oauth.rs: the state parameter                                  *)
(***************************************************************************)
\* A byte is a number in 0..255.  A text handed to or returned by Base64 is
\* the sequence of its characters, a character of the URL-safe alphabet
\* being its index 0..63 in the alphabet and any other character 64.

\* the 32 bytes of Config::state_encryption_key
state_encryption_key == [i \in 1..32 |-> (37 * i) % 256]

\* the challenge ids that are sealed, and str::as_bytes on them
ChallengeIds == LoginChallenges \cup {"a", "A", "ab", "abc"}

as_bytes(s) ==
    CASE s = "challenge123" -> <<99, 104, 97, 108, 108, 101, 110, 103, 101, 49, 50, 51>>
      [] s = "a" -> <<97>>
      [] s = "A" -> <<65>>
      [] s = "ab" -> <<97, 98>>
      [] s = "abc" -> <<97, 98, 99>>

\* String::from_utf8: the text whose bytes these are, if there is one
from_utf8(bytes) == {s \in ChallengeIds : as_bytes(s) = bytes}

\* URL_SAFE_NO_PAD.encode: six bits per character, most significant first,
\* the last character filled up with zero bits, no padding
URL_SAFE_NO_PAD_encode(bytes) ==
    LET n == Len(bytes)
        byte(i) == IF i <= n THEN bytes[i] ELSE 0
    IN  [k \in 1..((8 * n + 5) \div 6) |->
            LET bit == 6 * (k - 1)
                i == bit \div 8 + 1
            IN  ((byte(i) * 256 + byte(i + 1)) \div 2 ^ (10 - (bit % 8))) % 64]

\* URL_SAFE_NO_PAD.decode, as a set of at most one byte sequence: it refuses
\* a character outside the alphabet (padding included), a length of 4k + 1
\* and a last character whose spare bits are not zero
URL_SAFE_NO_PAD_decode_allowing_trailing_bits(text) ==
    LET m == Len(text)
        sym(k) == IF k <= m THEN text[k] ELSE 0
    IN  IF \E k \in 1..m : text[k] \notin 0..63 THEN {}
        ELSE IF m % 4 = 1 THEN {}
        ELSE {[i \in 1..((6 * m) \div 8) |->
                LET bit == 8 * (i - 1)
                    k == bit \div 6 + 1
                IN  ((sym(k) * 64 + sym(k + 1)) \div 2 ^ (4 - (bit % 6))) % 256]}

URL_SAFE_NO_PAD_decode(text) ==
    LET m == Len(text)
        n == (6 * m) \div 8
        sym(k) == IF k <= m THEN text[k] ELSE 0
    IN  IF \E k \in 1..m : text[k] \notin 0..63 THEN {}
        ELSE IF m % 4 = 1 THEN {}
        ELSE IF m > 0 /\ text[m] % (2 ^ (6 * m - 8 * n)) # 0 THEN {}
        ELSE {[i \in 1..n |->
                LET bit == 8 * (i - 1)
                    k == bit \div 6 + 1
                IN  ((sym(k) * 64 + sym(k + 1)) \div 2 ^ (4 - (bit % 6))) % 256]}

RECURSIVE SumBytes(_)
SumBytes(bytes) == IF bytes = <<>> THEN 0 ELSE Head(bytes) + SumBytes(Tail(bytes))

\* Aes256Gcm::encrypt: the plaintext under a key stream of key and nonce,
\* followed by the 16-byte tag over key, nonce and ciphertext
Aes256Gcm_encrypt(key, nonce, plaintext) ==
    LET n == Len(plaintext)
        body == [i \in 1..n |->
                   (plaintext[i] + key[1 + (i % 32)] + 3 * nonce[1 + (i % 12)] + 7 * i) % 256]
        mac == SumBytes(key) + 5 * SumBytes(nonce) + 11 * SumBytes(body)
    IN  body \o [j \in 1..16 |-> (mac + 31 * j) % 256]

\* the plaintexts that were ever sealed under the key: the challenge ids,
\* and a byte sequence that is no UTF-8 text
Plaintexts == {as_bytes(s) : s \in ChallengeIds} \cup {<<255, 254>>}

\* Aes256Gcm::decrypt, as a set of at most one plaintext: a ciphertext
\* opens only if it is what encrypt gives for key, nonce and a plaintext
\* that was sealed (nobody forges a tag without the key)
Aes256Gcm_decrypt(key, nonce, ciphertext) ==
    {p \in Plaintexts : Aes256Gcm_encrypt(key, nonce, p) = ciphertext}

\* encrypt_state, given the 12 bytes OsRng gave for the nonce
encrypt_state_with(key, login_challenge, nonce_bytes) ==
    URL_SAFE_NO_PAD_encode(
        nonce_bytes \o Aes256Gcm_encrypt(key, nonce_bytes, as_bytes(login_challenge)))

encrypt_state(login_challenge, nonce_bytes) ==
    encrypt_state_with(state_encryption_key, login_challenge, nonce_bytes)

\* decrypt_state after the Base64 step
decrypt_blob_with(key, encrypted) ==
    IF Len(encrypted) < 12 THEN Err("OAuthStateInvalid")
    ELSE LET nonce_bytes == SubSeq(encrypted, 1, 12)
             ciphertext == SubSeq(encrypted, 13, Len(encrypted))
             plaintext == Aes256Gcm_decrypt(key, nonce_bytes, ciphertext)
         IN  IF plaintext = {} THEN Err("OAuthStateInvalid")
             ELSE LET text == from_utf8(CHOOSE p \in plaintext : TRUE)
                  IN  IF text = {} THEN Err("OAuthStateInvalid")
                      ELSE [kind |-> "Ok", value |-> CHOOSE t \in text : TRUE]

decrypt_blob(encrypted) == decrypt_blob_with(state_encryption_key, encrypted)

decrypt_state_naming_the_base64_failure(encrypted_state) ==
    LET decoded == URL_SAFE_NO_PAD_decode(encrypted_state)
    IN  IF decoded = {} THEN Validation("state is not Base64")
        ELSE decrypt_blob(CHOOSE b \in decoded : TRUE)

decrypt_state(encrypted_state) ==
    LET decoded == URL_SAFE_NO_PAD_decode(encrypted_state)
    IN  IF decoded = {} THEN Err("OAuthStateInvalid")
        ELSE decrypt_blob(CHOOSE b \in decoded : TRUE)

decode_state(state) == decrypt_state(state)

\* the key each adapter keeps: AppState::new hands config.oauth_state_secret
\* to OAuthService::new and to GitHubOAuthService::new alike
service_state_encryption_key_of_its_own(provider) ==
    IF provider = "google" THEN state_encryption_key
    ELSE [i \in 1..32 |-> (41 * i + 1) % 256]

service_state_encryption_key(provider) == state_encryption_key

\* the state an adapter's generate_auth_url puts into the URL
generate_auth_url_state(provider, login_challenge, nonce_bytes) ==
    encrypt_state_with(service_state_encryption_key(provider), login_challenge,
                       nonce_bytes)

\* decode_state of the adapter of provider
service_decode_state(provider, state) ==
    LET decoded == URL_SAFE_NO_PAD_decode(state)
    IN  IF decoded = {} THEN Err("OAuthStateInvalid")
        ELSE decrypt_blob_with(service_state_encryption_key(provider),
                               CHOOSE b \in decoded : TRUE)

\* the nonces OsRng gives
StateNonces == {[i \in 1..12 |-> 0], [i \in 1..12 |-> (16 * i) % 256]}

\* state strings nobody was sent: a sealed plaintext that is no UTF-8
\* text, the empty text, a blob of nine bytes and a text of five characters
ForgedStates ==
    {URL_SAFE_NO_PAD_encode(n \o Aes256Gcm_encrypt(state_encryption_key, n, <<255, 254>>)) :
        n \in StateNonces}
    \cup {<<>>, URL_SAFE_NO_PAD_encode(<<1, 2, 3, 4, 5, 6, 7, 8, 9>>), <<0, 0, 0, 0, 0>>}

\* generate_auth_url seals a challenge id into the state of the URL
state_encrypt(r) ==
    /\ req[r].pc = "idle"
    /\ \E c \in ChallengeIds, n \in StateNonces :
          req' = [req EXCEPT ![r] =
                    [Idle EXCEPT !.op = "encrypt_state", !.pc = "done",
                                 !.arg = [login_challenge |-> c, nonce |-> n],
                                 !.res = [kind |-> "Ok", value |-> encrypt_state(c, n)]]]
    /\ pre' = [pre EXCEPT ![r] = Snapshot]
    /\ UnchangedStore

\* on its way the state is altered in one position
state_alter(r) ==
    /\ At(r, "encrypt_state", "done")
    /\ \E position \in 1..Len(req[r].res.value), symbol \in 0..64 :
          /\ symbol # req[r].res.value[position]
          /\ req' = [req EXCEPT
                  ![r].op = "alter_state",
                  ![r].arg = [login_challenge |-> req[r].arg.login_challenge,
                              nonce |-> req[r].arg.nonce,
                              position |-> position, symbol |-> symbol],
                  ![r].res.value = [@ EXCEPT ![position] = symbol]]
    /\ UnchangedStore /\ UNCHANGED pre

\* a state string that was made elsewhere arrives
state_forge(r) ==
    /\ req[r].pc = "idle"
    /\ \E forged \in ForgedStates :
          req' = [req EXCEPT ![r] =
                    [Idle EXCEPT !.op = "forge_state", !.pc = "done",
                                 !.arg = [forged |-> TRUE],
                                 !.res = [kind |-> "Ok", value |-> forged]]]
    /\ pre' = [pre EXCEPT ![r] = Snapshot]
    /\ UnchangedStore

\* the callback decodes the state it received
state_decode(r) ==
    /\ req[r].op \in {"encrypt_state", "alter_state", "forge_state"}
    /\ req[r].pc = "done"
    /\ req' = [req EXCEPT
            ![r].op = "decode_state",
            ![r].arg = [state |-> req[r].res.value, from |-> req[r].op,
                        sent |-> req[r].arg],
            ![r].res = decode_state(req[r].res.value)]
    /\ UnchangedStore /\ UNCHANGED pre

(***************************************************************************)
(* repositories/user_social_account.rs                                     *)
(***************************************************************************)
find_by_provider_and_id_finding_none(provider, provider_id) == {}

find_by_provider_and_id(provider, provider_id) ==
    {a \in user_social_accounts : a.provider = provider /\ a.provider_id = provider_id}

\* the UNIQUE constraint on (provider, provider_id)
user_social_accounts_provider_key(provider, provider_id) ==
    find_by_provider_and_id(provider, provider_id) = {}

SocialAccountRow_of_no_user(user_id, provider, provider_id, email) ==
    [user_id |-> 0, provider |-> provider, provider_id |-> provider_id,
     email |-> email]

SocialAccountRow(user_id, provider, provider_id, email) ==
    [user_id |-> user_id, provider |-> provider, provider_id |-> provider_id,
     email |-> email]

(***************************************************************************)
(* handlers/oauth.rs: google_callback and github_callback                  *)
(***************************************************************************)
Providers == {"google", "github"}
ProviderIds == {"1001"}

\* Config::from_env reads each OAuth setting as an Option
ConfigFields == {"google_client_id", "google_client_secret", "google_redirect_uri",
                 "github_client_id", "github_client_secret", "github_redirect_uri"}
Configs == [ConfigFields -> {{}, {"set"}}]
ConfiguredAll == [f \in ConfigFields |-> {"set"}]

\* AppState::new builds an adapter from (client id, client secret, redirect
\* URI) when the three are Some, and None otherwise
google_oauth_service_with_two_settings ==
    IF config.google_client_id # {} /\ config.google_client_secret # {}
    THEN {"google"} ELSE {}

google_oauth_service ==
    IF config.google_client_id # {} /\ config.google_client_secret # {}
       /\ config.google_redirect_uri # {}
    THEN {"google"} ELSE {}

github_oauth_service ==
    IF config.github_client_id # {} /\ config.github_client_secret # {}
       /\ config.github_redirect_uri # {}
    THEN {"github"} ELSE {}

oauth_service(provider) ==
    IF provider = "google" THEN google_oauth_service ELSE github_oauth_service

\* AppError::OAuthError("Google OAuth is not configured"), and the same for
\* GitHub
NotConfigured(provider) ==
    [kind |-> "OAuthError", msg |-> <<provider, "OAuth is not configured">>]

\* a state the broker issued with its first character altered
TamperedState ==
    [encrypt_state("challenge123", [i \in 1..12 |-> 0]) EXCEPT ![1] = (@ + 1) % 64]

CallbackQueries ==
    [provider : Providers, code : {"code123"},
     state : {encrypt_state(c, [i \in 1..12 |-> 0]) : c \in LoginChallenges}
             \cup {TamperedState}]

\* OAuthUserInfo, the fields the handler reads
Profiles == [id : ProviderIds, email : Emails]

OAuthOutcomes == {"ok", "transport", "status", "parse"}

\* exchange_code and get_user_info: a transport failure is
\* OAuthProviderError, a non-success status or an unparsable body OAuthError
OAuthCallError(outcome) ==
    IF outcome = "transport" THEN Err("OAuthProviderError") ELSE Err("OAuthError")

\* let login_challenge = oauth_service.decode_state(&query.state), for
\* each state a query carries
login_challenge_of == [state \in {q.state : q \in CallbackQueries} |-> decode_state(state)]

oauth_callback_validate_without_decoding(query) ==
    IF oauth_service(query.provider) = {} THEN {NotConfigured(query.provider)} ELSE {}

oauth_callback_validate(query) ==
    IF oauth_service(query.provider) = {} THEN {NotConfigured(query.provider)}
    ELSE IF login_challenge_of[query.state].kind # "Ok"
    THEN {login_challenge_of[query.state]}
    ELSE {}

\* google_auth and github_auth: the adapter, then generate_auth_url, which
\* seals the challenge id with 12 bytes of OsRng
oauth_auth(r) ==
    /\ CanBegin(r)
    /\ \E provider \in Providers, login_challenge \in LoginChallenges,
          nonce_bytes \in StateNonces :
          req' = [req EXCEPT ![r] =
              [Idle EXCEPT
                 !.op = "oauth_auth", !.pc = "done",
                 !.arg = [provider |-> provider, login_challenge |-> login_challenge],
                 !.res = IF oauth_service(provider) = {} THEN NotConfigured(provider)
                         ELSE [kind |-> "Ok",
                               value |-> <<"auth_url", provider,
                                           encrypt_state(login_challenge, nonce_bytes)>>]]]
    /\ pre' = [pre EXCEPT ![r] = Snapshot]
    /\ UnchangedStore

oauth_callback_Begin(r) ==
    /\ \E query \in CallbackQueries :
          Begin(r, "oauth_callback", query, oauth_callback_validate(query),
                "exchange_code")
    /\ UnchangedStore

oauth_callback_exchange_code(r) ==
    /\ At(r, "oauth_callback", "exchange_code")
    /\ \E out \in OAuthOutcomes :
          req' = [req EXCEPT
              ![r].calls = Append(@, [api |-> "exchange_code",
                                      code |-> req[r].arg.code, out |-> out]),
              ![r].res = IF out = "ok" THEN @ ELSE OAuthCallError(out),
              ![r].pc = IF out = "ok" THEN "get_user_info" ELSE "done"]
    /\ UnchangedStore /\ UNCHANGED pre

oauth_callback_get_user_info(r) ==
    /\ At(r, "oauth_callback", "get_user_info")
    /\ \E out \in OAuthOutcomes, profile \in Profiles :
          req' = [req EXCEPT
              ![r].calls = Append(@, [api |-> "get_user_info", out |-> out,
                                      info |-> IF out = "ok" THEN {profile} ELSE {}]),
              ![r].loc.profile = IF out = "ok" THEN {profile} ELSE {},
              ![r].res = IF out = "ok" THEN @ ELSE OAuthCallError(out),
              ![r].pc = IF out = "ok" THEN "find_link" ELSE "done"]
    /\ UnchangedStore /\ UNCHANGED pre

\* GitHubUserInfoResponse of an account that shows no email
Logins == {"octocat"}
GitHubUserInfoResponses == [id : ProviderIds, email : {{}}, login : Logins]

\* format!("{}@github.local", login)
github_local == [login \in Logins |-> "octocat@github.local"]

github_email_with_bare_login(response) ==
    IF response.email = {} THEN response.login ELSE CHOOSE e \in response.email : TRUE

\* user_info.email.unwrap_or_else(|| format!("{}@github.local", user_info.login))
github_email(response) ==
    IF response.email = {} THEN github_local[response.login]
    ELSE CHOOSE e \in response.email : TRUE

\* GitHubOAuthService::get_user_info answered by an account without a
\* public email
github_get_user_info_without_email(r) ==
    /\ At(r, "oauth_callback", "get_user_info")
    /\ req[r].arg.provider = "github"
    /\ \E response \in GitHubUserInfoResponses :
          LET profile == [id |-> response.id, email |-> github_email(response)]
          IN  req' = [req EXCEPT
                  ![r].calls = Append(@, [api |-> "get_user_info", out |-> "ok",
                                          info |-> {profile}, response |-> response]),
                  ![r].loc.profile = {profile},
                  ![r].pc = "find_link"]
    /\ UnchangedStore /\ UNCHANGED pre

\* process_oauth_callback, first await: find_by_provider_and_id
process_oauth_callback_find_link(r) ==
    /\ At(r, "oauth_callback", "find_link")
    /\ \E io \in IoOutcomes :
          LET profile == CHOOSE p \in req[r].loc.profile : TRUE
              existing == find_by_provider_and_id(req[r].arg.provider, profile.id)
          IN  IF io = "error" THEN Return(r, Err("Database"))
              ELSE IF existing # {}
              THEN req' = [req EXCEPT
                      ![r].loc.user = {(CHOOSE a \in existing : TRUE).user_id},
                      ![r].pc = "accept_login"]
              ELSE req' = [req EXCEPT ![r].pc = "find_by_email"]
    /\ UnchangedStore /\ UNCHANGED pre

process_oauth_callback_find_by_email(r) ==
    /\ At(r, "oauth_callback", "find_by_email")
    /\ \E io \in IoOutcomes :
          LET profile == CHOOSE p \in req[r].loc.profile : TRUE
              found == find_by_email(profile.email)
          IN  IF io = "error" THEN Return(r, Err("Database"))
              ELSE IF found # {}
              THEN req' = [req EXCEPT
                      ![r].loc.user = {(CHOOSE u \in found : TRUE).id},
                      ![r].pc = "create_link"]
              ELSE req' = [req EXCEPT ![r].pc = "create_social_user"]
    /\ UnchangedStore /\ UNCHANGED pre

\* UserRepository::create_social_user
process_oauth_callback_create_social_user(r) ==
    /\ At(r, "oauth_callback", "create_social_user")
    /\ \E io \in IoOutcomes :
          LET profile == CHOOSE p \in req[r].loc.profile : TRUE
              row == UserRow(profile.email, {})
          IN  IF io = "error"
              THEN Return(r, Err("Database")) /\ UNCHANGED users
              ELSE IF ~users_email_key(profile.email)
              THEN Return(r, UniqueViolation("users_email_key")) /\ UNCHANGED users
              ELSE /\ users' = users \cup {row}
                   /\ req' = [req EXCEPT ![r].loc.user = {row.id},
                                         ![r].pc = "create_link"]
    /\ UNCHANGED <<user_2fa_secrets, user_social_accounts, password_reset_tokens,
                   now, pre, config>>

\* UserSocialAccountRepository::create
process_oauth_callback_create_link(r) ==
    /\ At(r, "oauth_callback", "create_link")
    /\ \E io \in IoOutcomes :
          LET profile == CHOOSE p \in req[r].loc.profile : TRUE
              user_id == CHOOSE u \in req[r].loc.user : TRUE
              provider == req[r].arg.provider
          IN  IF io = "error"
              THEN Return(r, Err("Database")) /\ UNCHANGED user_social_accounts
              ELSE IF ~user_social_accounts_provider_key(provider, profile.id)
              THEN Return(r, UniqueViolation("user_social_accounts_provider_key"))
                   /\ UNCHANGED user_social_accounts
              ELSE /\ user_social_accounts' = user_social_accounts \cup
                          {SocialAccountRow(user_id, provider, profile.id,
                                            {profile.email})}
                   /\ req' = [req EXCEPT ![r].pc = "accept_login"]
    /\ UNCHANGED <<users, user_2fa_secrets, password_reset_tokens, now, pre, config>>

process_oauth_callback_accept_login(r) ==
    /\ At(r, "oauth_callback", "accept_login")
    /\ \E out \in HydraOutcomes :
          LET user_id == CHOOSE u \in req[r].loc.user : TRUE
              login_challenge == login_challenge_of[req[r].arg.state].value
              call == AcceptLoginCall(login_challenge, ToString(user_id), out)
          IN  req' = [req EXCEPT
                  ![r].calls = Append(@, call),
                  ![r].res = IF out = "ok"
                             THEN [kind |-> "Redirect", to |-> RedirectFor(call)]
                             ELSE HydraError(out),
                  ![r].loc = NoLoc,
                  ![r].pc = "done"]
    /\ UnchangedStore /\ UNCHANGED pre

(***************************************************************************)
(* repositories/password_reset_token.rs                                    *)
(***************************************************************************)
\* the row INSERT INTO password_reset_tokens ... RETURNING gives; used_at
\* is a set: empty for NULL
TokenRow(user_id, token_hash, expires_at) ==
    [id |-> Cardinality(password_reset_tokens) + 1, user_id |-> user_id,
     token_hash |-> token_hash, expires_at |-> expires_at, used_at |-> {}]

find_by_token_hash(token_hash) ==
    {t \in password_reset_tokens : t.token_hash = token_hash}

mark_as_used_on_every_row(id) ==
    {[t EXCEPT !.used_at = {now}] : t \in password_reset_tokens}

mark_as_used(id) ==
    {IF t.id = id THEN [t EXCEPT !.used_at = {now}] ELSE t :
        t \in password_reset_tokens}

\* UserRepository::update_password
update_password(user_id, new_password_hash) ==
    {IF u.id = user_id THEN [u EXCEPT !.password_hash = {new_password_hash}] ELSE u :
        u \in users}

(***************************************************************************)
(* services/password_reset.rs and handlers/password_reset.rs               *)
(***************************************************************************)
\* 32 random bytes: a token no earlier row was made for
generate_token == Cardinality(password_reset_tokens) + 1

\* SHA-256, symbolically
hash_token_keeping_the_token(token) == <<"plain", token>>

hash_token(token) == <<"sha256", token>>

validate_email(email) ==
    IF trim_is_empty(email) \/ ~contains_at(email)
    THEN {Validation("email is not valid")}
    ELSE {}

ResetRequestRequests == [email : Emails \cup {InvalidEmail}]

request_password_reset_Begin(r) ==
    /\ Cardinality(password_reset_tokens) < MaxTokens
    /\ \E request \in ResetRequestRequests :
          Begin(r, "request_password_reset", request, validate_email(request.email),
                "find_by_email")
    /\ UnchangedStore

\* an unknown email is answered like a known one
request_reset_find_by_email(r) ==
    /\ At(r, "request_password_reset", "find_by_email")
    /\ \E io \in IoOutcomes :
          LET found == find_by_email(req[r].arg.email)
          IN  IF io = "error" THEN Return(r, Err("Database"))
              ELSE IF found = {} THEN Return(r, [kind |-> "Ok"])
              ELSE req' = [req EXCEPT ![r].loc.user = found, ![r].pc = "create"]
    /\ UnchangedStore /\ UNCHANGED pre

\* send_password_reset_email(to, reset_url): the mail is written to the log
\* and the call cannot fail
SendMailCall(to, token) ==
    [api |-> "send_password_reset_email", to |-> to,
     reset_url |-> <<"password-reset?token=", token>>, out |-> "ok"]

\* generate_token, hash_token, PasswordResetTokenRepository::create and the
\* mail
request_reset_create(r) ==
    /\ At(r, "request_password_reset", "create")
    /\ \E io \in IoOutcomes :
          LET user == CHOOSE u \in req[r].loc.user : TRUE
              token == generate_token
              row == TokenRow(user.id, hash_token(token), now + TokenTtl)
          IN  IF io = "error"
              THEN Return(r, Err("Database")) /\ UNCHANGED password_reset_tokens
              ELSE /\ password_reset_tokens' = password_reset_tokens \cup {row}
                   /\ req' = [req EXCEPT
                         ![r].calls = Append(@, SendMailCall(req[r].arg.email, token)),
                         ![r].pc = "done", ![r].res = [kind |-> "Ok"],
                         ![r].loc = NoLoc]
    /\ UNCHANGED <<users, user_2fa_secrets, user_social_accounts, now, pre, config>>

validate_reset_password_request(request) ==
    IF request.token = 0 THEN {Validation("token is required")}
    ELSE IF Len(request.new_password) < 8 THEN {Validation("password is too short")}
    ELSE {}

\* the tokens a client may send: those that may have been issued, and 0 for
\* a blank one
ResetPasswordRequests ==
    [token : 1..MaxTokens, new_password : Passwords]
    \cup {[token |-> 0, new_password |-> "password123"],
          [token |-> 1, new_password |-> ShortPassword]}

reset_password_Begin(r) ==
    /\ \E request \in ResetPasswordRequests :
          Begin(r, "reset_password", request,
                validate_reset_password_request(request), "find_by_token_hash")
    /\ UnchangedStore

\* what reset_password decides from the row(s) it read: an error, or
\* "continue" to go on to the update
reset_password_check_ignoring_used_at(found, time) ==
    IF found = {} THEN Err("TokenNotFound")
    ELSE IF (CHOOSE t \in found : TRUE).expires_at < time THEN Err("TokenExpired")
    ELSE [kind |-> "continue"]

reset_password_check_refusing_at_expiry(found, time) ==
    IF found = {} THEN Err("TokenNotFound")
    ELSE LET reset_token == CHOOSE t \in found : TRUE
         IN  IF reset_token.used_at # {} THEN Err("TokenExpired")
             ELSE IF reset_token.expires_at <= time THEN Err("TokenExpired")
             ELSE [kind |-> "continue"]

reset_password_check(found, time) ==
    IF found = {} THEN Err("TokenNotFound")
    ELSE LET reset_token == CHOOSE t \in found : TRUE
         IN  IF reset_token.used_at # {} THEN Err("TokenExpired")
             ELSE IF reset_token.expires_at < time THEN Err("TokenExpired")
             ELSE [kind |-> "continue"]

reset_password_find_by_token_hash(r) ==
    /\ At(r, "reset_password", "find_by_token_hash")
    /\ \E io \in IoOutcomes :
          LET found == find_by_token_hash(hash_token(req[r].arg.token))
              c == reset_password_check(found, now)
          IN  IF io = "error" THEN Return(r, Err("Database"))
              ELSE req' = [req EXCEPT
                      ![r].at = {now},
                      ![r].loc = IF c.kind = "continue" THEN [@ EXCEPT !.token = found]
                                 ELSE NoLoc,
                      ![r].res = IF c.kind = "continue" THEN @ ELSE c,
                      ![r].pc = IF c.kind = "continue" THEN "update_password"
                                ELSE "done"]
    /\ UnchangedStore /\ UNCHANGED pre

\* hash_password and UserRepository::update_password
reset_password_update_password(r) ==
    /\ At(r, "reset_password", "update_password")
    /\ \E io \in IoOutcomes :
          LET reset_token == CHOOSE t \in req[r].loc.token : TRUE
          IN  IF io = "error"
              THEN Return(r, Err("Database")) /\ UNCHANGED users
              ELSE /\ users' = update_password(reset_token.user_id,
                                               hash_password(req[r].arg.new_password))
                   /\ req' = [req EXCEPT ![r].pc = "mark_as_used"]
    /\ UNCHANGED <<user_2fa_secrets, user_social_accounts, password_reset_tokens,
                   now, pre, config>>

reset_password_mark_as_used(r) ==
    /\ At(r, "reset_password", "mark_as_used")
    /\ \E io \in IoOutcomes :
          LET reset_token == CHOOSE t \in req[r].loc.token : TRUE
          IN  IF io = "error"
              THEN Return(r, Err("Database")) /\ UNCHANGED password_reset_tokens
              ELSE /\ password_reset_tokens' = mark_as_used(reset_token.id)
                   /\ Return(r, [kind |-> "Ok"])
    /\ UNCHANGED <<users, user_2fa_secrets, user_social_accounts, now, pre, config>>

(***************************************************************************)
(* handlers/consent.rs                                                     *)
(***************************************************************************)
Scopes == {"openid", "offline", "admin"}
ConsentChallenges == {"consent123"}

SeqsUpTo(S, n) == UNION {[1..k -> S] : k \in 0..n}

Contains(list, x) == \E i \in DOMAIN list : list[i] = x

validate_consent_request(request) ==
    IF trim_is_empty(request.consent_challenge)
    THEN {Validation("consent_challenge is required")}
    ELSE {}

\* the first scope of grant_scope that requested_scope does not contain is
\* the one the error names
validate_grant_scope_accepting_all(grant_scope, requested_scope) == {}

validate_grant_scope(grant_scope, requested_scope) ==
    LET bad == {i \in DOMAIN grant_scope : ~Contains(requested_scope, grant_scope[i])}
    IN  IF bad = {} THEN {}
        ELSE {Validation(<<"scope was not requested",
                           grant_scope[CHOOSE i \in bad : \A j \in bad : i <= j]>>)}

\* HydraConsentRequest, the fields the handler reads
ConsentInfos ==
    [skip : BOOLEAN,
     requested_scope : {<<>>, <<"openid">>, <<"openid", "offline">>},
     requested_access_token_audience : {<<>>, <<"api">>}]

GetConsentCall(challenge, out, info) ==
    [api |-> "get_consent_request", challenge |-> challenge, out |-> out,
     info |-> IF out = "ok" THEN {info} ELSE {}]

AcceptConsentCall(challenge, grant_scope, grant_access_token_audience, out) ==
    [api |-> "accept_consent", challenge |-> challenge, grant_scope |-> grant_scope,
     grant_access_token_audience |-> grant_access_token_audience,
     remember |-> TRUE, remember_for |-> 3600, session |-> {}, out |-> out]

ConsentRequests ==
    [consent_challenge : ConsentChallenges, grant_scope : SeqsUpTo(Scopes, MaxScopes)]
    \cup {[consent_challenge |-> "", grant_scope |-> <<>>]}

consent_Begin(r) ==
    /\ \E request \in ConsentRequests :
          Begin(r, "consent", request, validate_consent_request(request),
                "get_consent_request")
    /\ UnchangedStore

\* get_consent_request and, when skip is false, validate_grant_scope
consent_get_consent_request(r) ==
    /\ At(r, "consent", "get_consent_request")
    /\ \E out \in HydraOutcomes, info \in ConsentInfos :
          LET call == GetConsentCall(req[r].arg.consent_challenge, out, info)
              invalid == validate_grant_scope(req[r].arg.grant_scope,
                                              info.requested_scope)
          IN  req' = [req EXCEPT
                  ![r].calls = Append(@, call),
                  ![r].loc.info = IF out = "ok" /\ (info.skip \/ invalid = {})
                                  THEN {info} ELSE {},
                  ![r].res = IF out # "ok" THEN HydraError(out)
                             ELSE IF info.skip \/ invalid = {} THEN @
                             ELSE CHOOSE e \in invalid : TRUE,
                  ![r].pc = IF out # "ok" THEN "done"
                            ELSE IF info.skip THEN "accept_consent_skip"
                            ELSE IF invalid = {} THEN "accept_consent"
                            ELSE "done"]
    /\ UnchangedStore /\ UNCHANGED pre

\* skip = true: what was requested is granted again
\* the skip branch granting the request's own grant_scope
consent_accept_consent_skip_granting_what_was_sent(r) ==
    /\ At(r, "consent", "accept_consent_skip")
    /\ \E out \in HydraOutcomes :
          LET info == CHOOSE i \in req[r].loc.info : TRUE
              call == AcceptConsentCall(req[r].arg.consent_challenge,
                                        req[r].arg.grant_scope,
                                        info.requested_access_token_audience, out)
          IN  req' = [req EXCEPT
                  ![r].calls = Append(@, call),
                  ![r].res = IF out = "ok"
                             THEN [kind |-> "Ok", redirect_to |-> RedirectFor(call)]
                             ELSE HydraError(out),
                  ![r].loc = NoLoc,
                  ![r].pc = "done"]
    /\ UnchangedStore /\ UNCHANGED pre

consent_accept_consent_skip(r) ==
    /\ At(r, "consent", "accept_consent_skip")
    /\ \E out \in HydraOutcomes :
          LET info == CHOOSE i \in req[r].loc.info : TRUE
              call == AcceptConsentCall(req[r].arg.consent_challenge,
                                        info.requested_scope,
                                        info.requested_access_token_audience, out)
          IN  req' = [req EXCEPT
                  ![r].calls = Append(@, call),
                  ![r].res = IF out = "ok"
                             THEN [kind |-> "Ok", redirect_to |-> RedirectFor(call)]
                             ELSE HydraError(out),
                  ![r].loc = NoLoc,
                  ![r].pc = "done"]
    /\ UnchangedStore /\ UNCHANGED pre

consent_accept_consent(r) ==
    /\ At(r, "consent", "accept_consent")
    /\ \E out \in HydraOutcomes :
          LET info == CHOOSE i \in req[r].loc.info : TRUE
              call == AcceptConsentCall(req[r].arg.consent_challenge,
                                        req[r].arg.grant_scope,
                                        info.requested_access_token_audience, out)
          IN  req' = [req EXCEPT
                  ![r].calls = Append(@, call),
                  ![r].res = IF out = "ok"
                             THEN [kind |-> "Ok", redirect_to |-> RedirectFor(call)]
                             ELSE HydraError(out),
                  ![r].loc = NoLoc,
                  ![r].pc = "done"]
    /\ UnchangedStore /\ UNCHANGED pre

(***************************************************************************)
(* The clock.                                                              *)
(***************************************************************************)
Tick ==
    /\ now < StartStep + MaxTime
    /\ now' = now + 1
    /\ UNCHANGED <<users, user_2fa_secrets, user_social_accounts,
                   password_reset_tokens, req, pre, config>>

(***************************************************************************)
(* handlers/logout.rs                                                      *)
(***************************************************************************)
LogoutChallenges == {"logout123", "logout456", "logout789"}

\* HydraLogoutRequest; sid is an Option
LogoutInfos ==
    [challenge : LogoutChallenges, subject : {"user-1", "user-2", "user-3"},
     sid : {{}, {"sid-1"}, {"sid-2"}}]

GetLogoutCall(challenge, out, info) ==
    [api |-> "get_logout_request", challenge |-> challenge, out |-> out,
     info |-> IF out = "ok" THEN {info} ELSE {}]

AcceptLogoutCall_for_no_challenge(challenge, out) ==
    [api |-> "accept_logout", challenge |-> "", out |-> out]

\* the body of the accept is the empty object
AcceptLogoutCall(challenge, out) ==
    [api |-> "accept_logout", challenge |-> challenge, out |-> out]

validate_logout_request(request) ==
    IF trim_is_empty(request.logout_challenge)
    THEN {Validation("logout_challenge is required")}
    ELSE {}

LogoutRequests == [logout_challenge : LogoutChallenges \cup {"", "   "}]

logout_Begin(r) ==
    /\ \E request \in LogoutRequests :
          Begin(r, "logout", request, validate_logout_request(request),
                "get_logout_request")
    /\ UnchangedStore

logout_get_logout_request(r) ==
    /\ At(r, "logout", "get_logout_request")
    /\ \E out \in HydraOutcomes, info \in LogoutInfos :
          LET call == GetLogoutCall(req[r].arg.logout_challenge, out, info)
          IN  req' = [req EXCEPT
                  ![r].calls = Append(@, call),
                  ![r].loc.info = IF out = "ok" THEN {info} ELSE {},
                  ![r].res = IF out = "ok" THEN @ ELSE HydraError(out),
                  ![r].pc = IF out = "ok" THEN "accept_logout" ELSE "done"]
    /\ UnchangedStore /\ UNCHANGED pre

logout_accept_logout(r) ==
    /\ At(r, "logout", "accept_logout")
    /\ \E out \in HydraOutcomes :
          LET call == AcceptLogoutCall(req[r].arg.logout_challenge, out)
          IN  req' = [req EXCEPT
                  ![r].calls = Append(@, call),
                  ![r].res = IF out = "ok"
                             THEN [kind |-> "Ok", redirect_to |-> RedirectFor(call)]
                             ELSE HydraError(out),
                  ![r].loc = NoLoc,
                  ![r].pc = "done"]
    /\ UnchangedStore /\ UNCHANGED pre

(***************************************************************************)
(* Specifications.  The store starts empty.  With one task, requests run   *)
(* one after another.                                                      *)
(***************************************************************************)
InitWith(tasks) ==
    /\ users = {}
    /\ user_2fa_secrets = {}
    /\ user_social_accounts = {}
    /\ password_reset_tokens = {}
    /\ config = ConfiguredAll
    /\ now = StartStep
    /\ req = [r \in tasks |-> Idle]
    /\ pre = [r \in tasks |-> Snapshot]

Init == InitWith({1})

Tasks == DOMAIN req

\* registration, the 2FA life cycle and password login
NextLogin ==
    \/ Tick
    \/ \E r \in Tasks : register_Begin(r)
    \/ \E r \in Tasks : register_create_user(r)
    \/ \E r \in Tasks : verify_user_password_find_by_id(r)
    \/ \E r \in Tasks : verify_user_password_authenticate(r)
    \/ \E r \in Tasks : setup_2fa_Begin(r)
    \/ \E r \in Tasks : setup_2fa_find_2fa(r)
    \/ \E r \in Tasks : setup_2fa_delete(r)
    \/ \E r \in Tasks : setup_2fa_create(r)
    \/ \E r \in Tasks : verify_2fa_Begin(r)
    \/ \E r \in Tasks : verify_2fa_find_2fa(r)
    \/ \E r \in Tasks : verify_2fa_enable(r)
    \/ \E r \in Tasks : login_Begin(r)
    \/ \E r \in Tasks : login_get_login_request(r)
    \/ \E r \in Tasks : login_accept_login_skip(r)
    \/ \E r \in Tasks : login_authenticate(r)
    \/ \E r \in Tasks : login_find_2fa(r)
    \/ \E r \in Tasks : login_accept_login(r)

SpecLogin == Init /\ [][NextLogin]_vars

\* registration and the 2FA life cycle
NextTotp ==
    \/ Tick
    \/ \E r \in Tasks : register_Begin(r)
    \/ \E r \in Tasks : register_create_user(r)
    \/ \E r \in Tasks : verify_user_password_find_by_id(r)
    \/ \E r \in Tasks : verify_user_password_authenticate(r)
    \/ \E r \in Tasks : setup_2fa_Begin(r)
    \/ \E r \in Tasks : setup_2fa_find_2fa(r)
    \/ \E r \in Tasks : setup_2fa_delete(r)
    \/ \E r \in Tasks : setup_2fa_create(r)
    \/ \E r \in Tasks : verify_2fa_Begin(r)
    \/ \E r \in Tasks : verify_2fa_find_2fa(r)
    \/ \E r \in Tasks : verify_2fa_enable(r)
    \/ \E r \in Tasks : disable_2fa_Begin(r)
    \/ \E r \in Tasks : disable_2fa_find_2fa(r)
    \/ \E r \in Tasks : disable_2fa_delete(r)

SpecTotp == Init /\ [][NextTotp]_vars

\* registration, the social callbacks and password login
NextSocial ==
    \/ \E r \in Tasks : register_Begin(r)
    \/ \E r \in Tasks : register_create_user(r)
    \/ \E r \in Tasks : oauth_callback_Begin(r)
    \/ \E r \in Tasks : oauth_callback_exchange_code(r)
    \/ \E r \in Tasks : oauth_callback_get_user_info(r)
    \/ \E r \in Tasks : process_oauth_callback_find_link(r)
    \/ \E r \in Tasks : process_oauth_callback_find_by_email(r)
    \/ \E r \in Tasks : process_oauth_callback_create_social_user(r)
    \/ \E r \in Tasks : process_oauth_callback_create_link(r)
    \/ \E r \in Tasks : process_oauth_callback_accept_login(r)
    \/ \E r \in Tasks : login_Begin(r)
    \/ \E r \in Tasks : login_get_login_request(r)
    \/ \E r \in Tasks : login_accept_login_skip(r)
    \/ \E r \in Tasks : login_authenticate(r)
    \/ \E r \in Tasks : login_find_2fa(r)
    \/ \E r \in Tasks : login_accept_login(r)

SpecSocial == Init /\ [][NextSocial]_vars

\* the social login under every setting of the environment
InitProviders ==
    /\ users = {}
    /\ user_2fa_secrets = {}
    /\ user_social_accounts = {}
    /\ password_reset_tokens = {}
    /\ config \in Configs
    /\ now = StartStep
    /\ req = [r \in {1} |-> Idle]
    /\ pre = [r \in {1} |-> Snapshot]

NextProviders ==
    \/ \E r \in Tasks : oauth_auth(r)
    \/ \E r \in Tasks : oauth_callback_Begin(r)
    \/ \E r \in Tasks : oauth_callback_exchange_code(r)
    \/ \E r \in Tasks : oauth_callback_get_user_info(r)
    \/ \E r \in Tasks : process_oauth_callback_find_link(r)
    \/ \E r \in Tasks : process_oauth_callback_find_by_email(r)
    \/ \E r \in Tasks : process_oauth_callback_create_social_user(r)
    \/ \E r \in Tasks : process_oauth_callback_create_link(r)
    \/ \E r \in Tasks : process_oauth_callback_accept_login(r)

SpecProviders == InitProviders /\ [][NextProviders]_vars

\* GitHub accounts without a public email; somebody may have registered
\* with the address the placeholder gives
InitGithub ==
    /\ users \in {{}, {[id |-> 1, email |-> github_local["octocat"],
                         password_hash |-> {hash_password("password123")}]}}
    /\ user_2fa_secrets = {}
    /\ user_social_accounts = {}
    /\ password_reset_tokens = {}
    /\ config = ConfiguredAll
    /\ now = StartStep
    /\ req = [r \in {1} |-> Idle]
    /\ pre = [r \in {1} |-> Snapshot]

NextGithub ==
    \/ \E r \in Tasks : oauth_callback_Begin(r)
    \/ \E r \in Tasks : oauth_callback_exchange_code(r)
    \/ \E r \in Tasks : oauth_callback_get_user_info(r)
    \/ \E r \in Tasks : github_get_user_info_without_email(r)
    \/ \E r \in Tasks : process_oauth_callback_find_link(r)
    \/ \E r \in Tasks : process_oauth_callback_find_by_email(r)
    \/ \E r \in Tasks : process_oauth_callback_create_social_user(r)
    \/ \E r \in Tasks : process_oauth_callback_create_link(r)
    \/ \E r \in Tasks : process_oauth_callback_accept_login(r)

SpecGithub == InitGithub /\ [][NextGithub]_vars

\* registration and the password reset
NextReset ==
    \/ Tick
    \/ \E r \in Tasks : register_Begin(r)
    \/ \E r \in Tasks : register_create_user(r)
    \/ \E r \in Tasks : request_password_reset_Begin(r)
    \/ \E r \in Tasks : request_reset_find_by_email(r)
    \/ \E r \in Tasks : request_reset_create(r)
    \/ \E r \in Tasks : reset_password_Begin(r)
    \/ \E r \in Tasks : reset_password_find_by_token_hash(r)
    \/ \E r \in Tasks : reset_password_update_password(r)
    \/ \E r \in Tasks : reset_password_mark_as_used(r)

SpecReset == Init /\ [][NextReset]_vars

\* the consent handler
NextConsent ==
    \/ \E r \in Tasks : consent_Begin(r)
    \/ \E r \in Tasks : consent_get_consent_request(r)
    \/ \E r \in Tasks : consent_accept_consent_skip(r)
    \/ \E r \in Tasks : consent_accept_consent(r)

SpecConsent == Init /\ [][NextConsent]_vars

\* the three handlers that talk to the provider: login, consent and the
\* social callback
NextHandlers ==
    \/ \E r \in Tasks : register_Begin(r)
    \/ \E r \in Tasks : register_create_user(r)
    \/ \E r \in Tasks : login_Begin(r)
    \/ \E r \in Tasks : login_get_login_request(r)
    \/ \E r \in Tasks : login_accept_login_skip(r)
    \/ \E r \in Tasks : login_authenticate(r)
    \/ \E r \in Tasks : login_find_2fa(r)
    \/ \E r \in Tasks : login_accept_login(r)
    \/ \E r \in Tasks : consent_Begin(r)
    \/ \E r \in Tasks : consent_get_consent_request(r)
    \/ \E r \in Tasks : consent_accept_consent_skip(r)
    \/ \E r \in Tasks : consent_accept_consent(r)
    \/ \E r \in Tasks : oauth_callback_Begin(r)
    \/ \E r \in Tasks : oauth_callback_exchange_code(r)
    \/ \E r \in Tasks : oauth_callback_get_user_info(r)
    \/ \E r \in Tasks : process_oauth_callback_find_link(r)
    \/ \E r \in Tasks : process_oauth_callback_find_by_email(r)
    \/ \E r \in Tasks : process_oauth_callback_create_social_user(r)
    \/ \E r \in Tasks : process_oauth_callback_create_link(r)
    \/ \E r \in Tasks : process_oauth_callback_accept_login(r)

SpecHandlers == Init /\ [][NextHandlers]_vars

\* a user the social callback created (create_social_user, then the link):
\* she has no password.  Others register, and everybody tries the password
\* login and the 2FA handlers
InitPasswordless ==
    /\ users = {[id |-> 1, email |-> "alice@example.com", password_hash |-> {}]}
    /\ user_2fa_secrets = {}
    /\ user_social_accounts =
          {SocialAccountRow(1, "google", "1001", {"alice@example.com"})}
    /\ password_reset_tokens = {}
    /\ config = ConfiguredAll
    /\ now = StartStep
    /\ req = [r \in {1} |-> Idle]
    /\ pre = [r \in {1} |-> Snapshot]

NextPasswordless ==
    \/ \E r \in Tasks : register_Begin(r)
    \/ \E r \in Tasks : register_create_user(r)
    \/ \E r \in Tasks : login_Begin(r)
    \/ \E r \in Tasks : login_get_login_request(r)
    \/ \E r \in Tasks : login_accept_login_skip(r)
    \/ \E r \in Tasks : login_authenticate(r)
    \/ \E r \in Tasks : login_find_2fa(r)
    \/ \E r \in Tasks : login_accept_login(r)
    \/ \E r \in Tasks : verify_user_password_find_by_id(r)
    \/ \E r \in Tasks : verify_user_password_authenticate(r)
    \/ \E r \in Tasks : setup_2fa_Begin(r)
    \/ \E r \in Tasks : setup_2fa_find_2fa(r)
    \/ \E r \in Tasks : setup_2fa_delete(r)
    \/ \E r \in Tasks : setup_2fa_create(r)
    \/ \E r \in Tasks : verify_2fa_Begin(r)
    \/ \E r \in Tasks : verify_2fa_find_2fa(r)
    \/ \E r \in Tasks : verify_2fa_enable(r)
    \/ \E r \in Tasks : disable_2fa_Begin(r)
    \/ \E r \in Tasks : disable_2fa_find_2fa(r)
    \/ \E r \in Tasks : disable_2fa_delete(r)

SpecPasswordless == InitPasswordless /\ [][NextPasswordless]_vars

\* the logout handler
NextLogout ==
    \/ \E r \in Tasks : logout_Begin(r)
    \/ \E r \in Tasks : logout_get_logout_request(r)
    \/ \E r \in Tasks : logout_accept_logout(r)

SpecLogout == Init /\ [][NextLogout]_vars

\* the state parameter alone: sealed, altered or forged, then decoded
NextState ==
    \/ \E r \in Tasks : state_encrypt(r)
    \/ \E r \in Tasks : state_alter(r)
    \/ \E r \in Tasks : state_forge(r)
    \/ \E r \in Tasks : state_decode(r)

SpecState == Init /\ [][NextState]_vars

\* how often one state is handed to a callback
MaxDecodes == 3

\* the adapter of a provider makes the URL of a login
service_generate_auth_url(r) ==
    /\ req[r].pc = "idle"
    /\ \E provider \in Providers, c \in ChallengeIds, n \in StateNonces :
          req' = [req EXCEPT ![r] =
                    [Idle EXCEPT
                        !.op = "generate_auth_url", !.pc = "issued",
                        !.arg = [provider |-> provider, login_challenge |-> c,
                                 nonce |-> n,
                                 state |-> generate_auth_url_state(provider, c, n)]]]
    /\ pre' = [pre EXCEPT ![r] = Snapshot]
    /\ UnchangedStore

\* the callback of a provider decodes the state; calls keeps what each
\* callback was answered
service_callback_decode_state(r) ==
    /\ At(r, "generate_auth_url", "issued")
    /\ Len(req[r].calls) < MaxDecodes
    /\ \E provider \in Providers :
          LET answer == service_decode_state(provider, req[r].arg.state)
          IN  req' = [req EXCEPT
                  ![r].calls = Append(@, [api |-> "decode_state",
                                          provider |-> provider,
                                          answer |-> answer]),
                  ![r].res = answer]
    /\ UnchangedStore /\ UNCHANGED pre

NextSharedState ==
    \/ \E r \in Tasks : service_generate_auth_url(r)
    \/ \E r \in Tasks : service_callback_decode_state(r)

SpecSharedState == Init /\ [][NextSharedState]_vars

\* verify_code alone, on chosen secrets and codes as the clock goes on
totp_verify_code(r) ==
    /\ CanBegin(r)
    /\ \E input \in VerifyCodeInputs :
          req' = [req EXCEPT ![r] =
                    [Idle EXCEPT !.op = "verify_code", !.pc = "done",
                                 !.arg = input, !.at = {now},
                                 !.res = verify_code(input.secret, input.code, now)]]
    /\ pre' = [pre EXCEPT ![r] = Snapshot]
    /\ UnchangedStore

NextVerifyCode ==
    \/ Tick
    \/ \E r \in Tasks : totp_verify_code(r)

SpecVerifyCode == Init /\ [][NextVerifyCode]_vars

(***************************************************************************)
(* Two requests at a time.  The server runs every request as a task of its *)
(* own, so the steps of two handlers interleave at their awaits.  The      *)
(* tables start as they are once alice has registered and has asked for a  *)
(* password reset.                                                         *)
(***************************************************************************)
InitRace ==
    /\ users = {[id |-> 1, email |-> "alice@example.com",
                 password_hash |-> {hash_password("password123")}]}
    /\ user_2fa_secrets = {}
    /\ user_social_accounts = {}
    /\ password_reset_tokens =
          {[id |-> 1, user_id |-> 1, token_hash |-> hash_token(1),
            expires_at |-> StartStep + TokenTtl, used_at |-> {}]}
    /\ config = ConfiguredAll
    /\ now = StartStep
    /\ req = [r \in {1, 2} |-> Idle]
    /\ pre = [r \in {1, 2} |-> Snapshot]

\* two reset_password calls at a time
NextRaceReset ==
    \/ Tick
    \/ \E r \in Tasks : reset_password_Begin(r)
    \/ \E r \in Tasks : reset_password_find_by_token_hash(r)
    \/ \E r \in Tasks : reset_password_update_password(r)
    \/ \E r \in Tasks : reset_password_mark_as_used(r)

SpecRaceReset == InitRace /\ [][NextRaceReset]_vars

\* two registrations or social callbacks at a time
NextRaceUsers ==
    \/ \E r \in Tasks : register_Begin(r)
    \/ \E r \in Tasks : register_create_user(r)
    \/ \E r \in Tasks : oauth_callback_Begin(r)
    \/ \E r \in Tasks : oauth_callback_exchange_code(r)
    \/ \E r \in Tasks : oauth_callback_get_user_info(r)
    \/ \E r \in Tasks : process_oauth_callback_find_link(r)
    \/ \E r \in Tasks : process_oauth_callback_find_by_email(r)
    \/ \E r \in Tasks : process_oauth_callback_create_social_user(r)
    \/ \E r \in Tasks : process_oauth_callback_create_link(r)
    \/ \E r \in Tasks : process_oauth_callback_accept_login(r)

SpecRaceUsers == InitRace /\ [][NextRaceUsers]_vars

\* a setup_2fa call of task 1 at the same time as any call of the 2FA
\* handlers of task 2 (every row is inserted by setup_2fa)
NextRace2fa ==
    \/ \E r \in Tasks : verify_user_password_find_by_id(r)
    \/ \E r \in Tasks : verify_user_password_authenticate(r)
    \/ \E r \in Tasks : setup_2fa_Begin(r)
    \/ \E r \in Tasks : setup_2fa_find_2fa(r)
    \/ \E r \in Tasks : setup_2fa_delete(r)
    \/ \E r \in Tasks : setup_2fa_create(r)
    \/ verify_2fa_Begin(2)
    \/ verify_2fa_find_2fa(2)
    \/ verify_2fa_enable(2)
    \/ disable_2fa_Begin(2)
    \/ disable_2fa_find_2fa(2)
    \/ disable_2fa_delete(2)

SpecRace2fa == InitRace /\ [][NextRace2fa]_vars

(***************************************************************************)
(* Properties.  A request that has answered is at pc "done"; pre[r] holds  *)
(* the tables as they were when it began.                                  *)
(***************************************************************************)
Done(r, op) == req[r].op = op /\ req[r].pc = "done"

\* the password is the one the user's row holds the hash of
CorrectPassword(user_id, password) ==
    \E u \in users : u.id = user_id /\ hash_password(password) \in u.password_hash

EnrollmentIn(table, user_id) == {t \in table : t.user_id = user_id}

OtherEnrollments(table, user_id) == {t \in table : t.user_id # user_id}

\* the code is what an authenticator holding the row's secret shows within
\* one period of the time t
CodeGood(row, code, t) ==
    \E s \in decrypt_secret(row.secret_encrypted), step \in (t - 1)..(t + 1) :
        TotpGenerate(s, step) = code

WellFormed(code) == Len(code) = 6 /\ \A i \in 1..6 : code[i] \in Digits

\* C5: a verify_2fa request answers Ok only for a Pending enrollment and a
\* code that verifies against its secret, and then exactly that row has
\* become enabled; any other answer leaves the table as it was.  For a
\* well-formed code and a store that answers: no enrollment gives
\* TotpNotEnabled, an Enabled one TotpAlreadyEnabled, a Pending one Ok when
\* the code verifies and TotpInvalid when it does not.
C5_Verify2faTransitions ==
    \A r \in Tasks :
        Done(r, "verify_2fa") =>
            LET uid == req[r].arg.user_id
                code == req[r].arg.code
                res == req[r].res
                before == EnrollmentIn(pre[r].user_2fa_secrets, uid)
            IN  /\ res.kind = "Ok" =>
                      \E row \in before :
                          /\ ~row.enabled
                          /\ \E t \in req[r].at : CodeGood(row, code, t)
                          /\ user_2fa_secrets =
                                 (pre[r].user_2fa_secrets \ {row})
                                     \cup {[row EXCEPT !.enabled = TRUE]}
                /\ res.kind # "Ok" => user_2fa_secrets = pre[r].user_2fa_secrets
                /\ (WellFormed(code) /\ res.kind # "Database") =>
                      /\ before = {} => res = Err("TotpNotEnabled")
                      /\ \A row \in before :
                            IF row.enabled THEN res = Err("TotpAlreadyEnabled")
                            ELSE \A t \in req[r].at :
                                    IF CodeGood(row, code, t) THEN res.kind = "Ok"
                                    ELSE res = Err("TotpInvalid")

\* a verify_2fa request has turned a Pending enrollment into an Enabled one
C5_Witness_Enabled ==
    \E r \in Tasks :
        /\ Done(r, "verify_2fa") /\ req[r].res.kind = "Ok"
        /\ \E row \in EnrollmentIn(pre[r].user_2fa_secrets, req[r].arg.user_id) :
              ~row.enabled
        /\ \E row \in EnrollmentIn(user_2fa_secrets, req[r].arg.user_id) : row.enabled

C7_Disable2faGuard ==
    \A r \in Tasks :
        Done(r, "disable_2fa") =>
            LET uid == req[r].arg.user_id
                code == req[r].arg.code
                res == req[r].res
                before == EnrollmentIn(pre[r].user_2fa_secrets, uid)
            IN  /\ res.kind = "Ok" =>
                      /\ CorrectPassword(uid, req[r].arg.password)
                      /\ \E row \in before :
                            /\ row.enabled
                            /\ \E t \in req[r].at : CodeGood(row, code, t)
                      /\ user_2fa_secrets =
                             OtherEnrollments(pre[r].user_2fa_secrets, uid)
                /\ res.kind # "Ok" => user_2fa_secrets = pre[r].user_2fa_secrets
                /\ (disable_2fa_validate(req[r].arg) = {} /\ res.kind # "Database") =>
                      IF ~CorrectPassword(uid, req[r].arg.password)
                      THEN res.kind = "Authentication"
                      ELSE IF \A row \in before : ~row.enabled
                      THEN res = Err("TotpNotEnabled")
                      ELSE \A row \in before, t \in req[r].at :
                              IF CodeGood(row, code, t) THEN res.kind = "Ok"
                              ELSE res = Err("TotpInvalid")

\* a disable_2fa request has deleted an Enabled enrollment
C7_Witness_Disabled ==
    \E r \in Tasks :
        /\ Done(r, "disable_2fa") /\ req[r].res.kind = "Ok"
        /\ \E row \in EnrollmentIn(pre[r].user_2fa_secrets, req[r].arg.user_id) :
              row.enabled
        /\ EnrollmentIn(user_2fa_secrets, req[r].arg.user_id) = {}

\* the provider answered the request's get_login_request with skip = false
LoginNoSkip(r) ==
    /\ req[r].op = "login"
    /\ \E i \in Called(r, "get_login_request") :
          \E info \in req[r].calls[i].info : ~info.skip

\* C2: in a non-skip login of a user whose enrollment is Enabled,
\* accept_login is called only if a well-formed code was supplied that
\* verifies against the stored secret at the time of the check; and, the
\* password being right and the store answering, no code gives the
\* requires_2fa answer without redirect and without accept, and a code that
\* does not verify gives TotpInvalid (Validation when malformed) without
\* accept.
C2_EnabledLoginNeedsCode ==
    \A r \in Tasks :
        LoginNoSkip(r) =>
            \A u \in find_by_email(req[r].arg.email) :
            \A row \in EnrollmentIn(user_2fa_secrets, u.id) :
                row.enabled =>
                    LET code == req[r].arg.code
                        res == req[r].res
                    IN  /\ Called(r, "accept_login") # {} =>
                              \E c \in code, t \in req[r].at :
                                  WellFormed(c) /\ CodeGood(row, c, t)
                        /\ ( /\ req[r].pc = "done"
                             /\ CorrectPassword(u.id, req[r].arg.password)
                             /\ res.kind # "Database" ) =>
                              /\ code = {} =>
                                    /\ res = [kind |-> "Ok", redirect_to |-> {},
                                              requires_2fa |-> {TRUE},
                                              user_id |-> {u.id}]
                                    /\ Called(r, "accept_login") = {}
                              /\ \A c \in code, t \in req[r].at :
                                    IF ~WellFormed(c)
                                    THEN /\ res.kind = "Validation"
                                         /\ Called(r, "accept_login") = {}
                                    ELSE IF ~CodeGood(row, c, t)
                                    THEN /\ res = Err("TotpInvalid")
                                         /\ Called(r, "accept_login") = {}
                                    ELSE Called(r, "accept_login") # {}

\* a login of a user with an Enabled enrollment was accepted with a code
C2_Witness_AcceptedWithCode ==
    \E r \in Tasks :
        /\ LoginNoSkip(r) /\ req[r].pc = "done" /\ req[r].res.kind = "Ok"
        /\ req[r].arg.code # {}
        /\ Called(r, "accept_login") # {}
        /\ \E u \in find_by_email(req[r].arg.email) :
              \E row \in EnrollmentIn(user_2fa_secrets, u.id) : row.enabled

\* C1: in a non-skip login whose credentials do not authenticate (no user
\* with the email, a user without password hash, or a hash of another
\* password), accept_login is never called, the handler never gets past
\* authenticate, and the answer, the store answering, is the
\* Authentication error.
C1_AuthFailureNoAccept ==
    \A r \in Tasks :
        ( /\ LoginNoSkip(r)
          /\ ~\E u \in users : /\ u.email = req[r].arg.email
                               /\ hash_password(req[r].arg.password) \in u.password_hash )
        => /\ Called(r, "accept_login") = {}
           /\ req[r].pc \in {"authenticate", "done"}
           /\ (req[r].pc = "done" /\ req[r].res.kind # "Database") =>
                  req[r].res = Authentication("invalid_credentials")

\* a non-skip login to a social-only account was refused
C1_Witness_SocialOnlyRefused ==
    \E r \in Tasks :
        /\ LoginNoSkip(r) /\ req[r].pc = "done"
        /\ req[r].res.kind = "Authentication"
        /\ \E u \in users : u.email = req[r].arg.email /\ u.password_hash = {}

\* the profile the provider answered the callback's get_user_info with
CallbackProfile(r) ==
    IF req[r].op # "oauth_callback" THEN {}
    ELSE UNION {req[r].calls[i].info : i \in Called(r, "get_user_info")}

LinksFor(table, provider, provider_id) ==
    {a \in table : a.provider = provider /\ a.provider_id = provider_id}

AcceptSubjects(r) == {req[r].calls[i].subject : i \in Called(r, "accept_login")}

\* the callback has answered, and not with a store failure
CallbackAnswered(r) == req[r].pc = "done" /\ req[r].res.kind # "Database"

\* C8: a callback that found no link for (provider, id) when it began but a
\* user with the profile's email: no users row is ever added or changed,
\* the only row it may add to user_social_accounts is the one binding that
\* user to (provider, id), accept_login is called only after that row is
\* there and with that user's id as subject, and, the store answering, it
\* is called.
C8_LinksExistingUser ==
    \A r \in Tasks : \A profile \in CallbackProfile(r) :
        \A u \in {x \in pre[r].users : x.email = profile.email} :
            LinksFor(pre[r].user_social_accounts, req[r].arg.provider, profile.id) = {}
            => LET link == [user_id |-> u.id, provider |-> req[r].arg.provider,
                            provider_id |-> profile.id, email |-> {profile.email}]
               IN  /\ users = pre[r].users
                   /\ user_social_accounts \in
                          {pre[r].user_social_accounts,
                           pre[r].user_social_accounts \cup {link}}
                   /\ Called(r, "accept_login") # {} =>
                          /\ user_social_accounts =
                                 pre[r].user_social_accounts \cup {link}
                          /\ AcceptSubjects(r) = {ToString(u.id)}
                   /\ CallbackAnswered(r) => Called(r, "accept_login") # {}

\* a callback has linked an existing user and was accepted
C8_Witness_Linked ==
    \E r \in Tasks : \E profile \in CallbackProfile(r) :
        /\ req[r].pc = "done" /\ req[r].res.kind = "Redirect"
        /\ \E u \in pre[r].users : u.email = profile.email
        /\ LinksFor(pre[r].user_social_accounts, req[r].arg.provider, profile.id) = {}
        /\ Cardinality(user_social_accounts \ pre[r].user_social_accounts) = 1

\* C9: a callback that found a link for (provider, id) when it began:
\* users and user_social_accounts stay as they were, whatever the
\* profile's email, accept_login is called with the link's user_id only,
\* and, the store answering, it is called.
C9_ReturningSocialUser ==
    \A r \in Tasks : \A profile \in CallbackProfile(r) :
        \A link \in LinksFor(pre[r].user_social_accounts, req[r].arg.provider,
                             profile.id) :
            /\ users = pre[r].users
            /\ user_social_accounts = pre[r].user_social_accounts
            /\ AcceptSubjects(r) \subseteq {ToString(link.user_id)}
            /\ CallbackAnswered(r) => Called(r, "accept_login") # {}

\* a callback was accepted through an existing link although the profile's
\* email is neither the link's nor the user's
C9_Witness_EmailChanged ==
    \E r \in Tasks : \E profile \in CallbackProfile(r) :
        /\ req[r].pc = "done" /\ req[r].res.kind = "Redirect"
        /\ \E link \in LinksFor(pre[r].user_social_accounts, req[r].arg.provider,
                                profile.id) :
              /\ link.email # {profile.email}
              /\ \E u \in users : u.id = link.user_id /\ u.email # profile.email

\* C10: a callback that found neither a link for (provider, id) nor a user
\* with the profile's email when it began: at most one users row is added,
\* it has the profile's email and no password hash; a user_social_accounts
\* row is added only when that user is there, and it binds that user to
\* (provider, id); accept_login is called only after both rows are there
\* and with the new user's id; the store answering, it is called.
C10_NewSocialUser ==
    \A r \in Tasks : \A profile \in CallbackProfile(r) :
        ( /\ LinksFor(pre[r].user_social_accounts, req[r].arg.provider, profile.id) = {}
          /\ ~\E u \in pre[r].users : u.email = profile.email )
        => LET new_users == users \ pre[r].users
               new_links == user_social_accounts \ pre[r].user_social_accounts
           IN  /\ pre[r].users \subseteq users
               /\ pre[r].user_social_accounts \subseteq user_social_accounts
               /\ Cardinality(new_users) <= 1
               /\ \A u \in new_users :
                      /\ u.email = profile.email
                      /\ u.password_hash = {}
                      /\ ~\E x \in pre[r].users : x.id = u.id
               /\ new_users = {} => new_links = {}
               /\ \A u \in new_users :
                      new_links \subseteq
                          {[user_id |-> u.id, provider |-> req[r].arg.provider,
                            provider_id |-> profile.id, email |-> {profile.email}]}
               /\ Called(r, "accept_login") # {} =>
                      /\ new_links # {}
                      /\ AcceptSubjects(r) = {ToString(u.id) : u \in new_users}
               /\ CallbackAnswered(r) => Called(r, "accept_login") # {}

\* a callback has created a user without password hash and its link, and
\* was accepted
C10_Witness_Created ==
    \E r \in Tasks : \E profile \in CallbackProfile(r) :
        /\ req[r].pc = "done" /\ req[r].res.kind = "Redirect"
        /\ \E u \in users \ pre[r].users :
              /\ u.password_hash = {}
              /\ \E a \in user_social_accounts \ pre[r].user_social_accounts :
                    a.user_id = u.id

TokenRows(table, token) == {t \in table : t.token_hash = hash_token(token)}

\* what a reset_password request that has answered shows about the token
\* it was called with
ResetAnswer(r) ==
    LET rows == TokenRows(pre[r].password_reset_tokens, req[r].arg.token)
        res == req[r].res
    IN  /\ res.kind = "Ok" =>
              \E row \in rows :
                  /\ row.used_at = {}
                  /\ \E t \in req[r].at : ~(row.expires_at < t)
                  /\ \E cur \in password_reset_tokens :
                        cur.id = row.id /\ cur.used_at # {}
        /\ res.kind # "Database" =>
              /\ rows = {} => res = Err("TokenNotFound")
              /\ \A row \in rows :
                    IF row.used_at # {} THEN res = Err("TokenExpired")
                    ELSE \A t \in req[r].at :
                            IF row.expires_at < t THEN res = Err("TokenExpired")
                            ELSE res.kind = "Ok"

\* a token that was used stays used, with the time it was used at
UsedStaysUsed ==
    \A t \in password_reset_tokens :
        t.used_at # {} =>
            \E u \in password_reset_tokens' : u.id = t.id /\ u.used_at = t.used_at

\* C3: a reset_password call answers Ok only for a token that was unused
\* and not expired when it was checked, and that token is then marked used
\* for good; the store answering, a call with an unused, unexpired token
\* answers Ok, and a call with a used token answers TokenExpired whether or
\* not the token has expired.  So of the calls made one after another with
\* one token, the first before expiry succeeds and no later one does.
C3_ResetTokenSingleUse ==
    /\ [](\A r \in Tasks :
             (Done(r, "reset_password")
                 /\ validate_reset_password_request(req[r].arg) = {})
             => ResetAnswer(r))
    /\ [][UsedStaysUsed]_vars

\* a second call with a token that has not expired was refused
C3_Witness_SecondCallRefused ==
    \E r \in Tasks :
        /\ Done(r, "reset_password") /\ req[r].res = Err("TokenExpired")
        /\ \E row \in TokenRows(pre[r].password_reset_tokens, req[r].arg.token) :
              /\ row.used_at # {}
              /\ \E t \in req[r].at : ~(row.expires_at < t)

AcceptConsentCalls(r) == {req[r].calls[i] : i \in Called(r, "accept_consent")}

\* the answer the provider gave the request's get_consent_request
ConsentInfo(r) ==
    IF req[r].op # "consent" THEN {}
    ELSE UNION {req[r].calls[i].info : i \in Called(r, "get_consent_request")}

ScopeSet(list) == {list[i] : i \in DOMAIN list}

\* C4: every accept_consent call of a consent request is made after its
\* get_consent_request was answered and grants scopes of the answer's
\* requested_scope only; and when skip is false and grant_scope holds a
\* scope that was not requested, the request has answered with Validation
\* and made no accept_consent call.
C4_GrantWithinRequested ==
    \A r \in Tasks :
        req[r].op = "consent" =>
            /\ AcceptConsentCalls(r) # {} => ConsentInfo(r) # {}
            /\ \A info \in ConsentInfo(r) :
                  /\ \A call \in AcceptConsentCalls(r) :
                        ScopeSet(call.grant_scope) \subseteq ScopeSet(info.requested_scope)
                  /\ ( /\ ~info.skip
                       /\ ~(ScopeSet(req[r].arg.grant_scope)
                                \subseteq ScopeSet(info.requested_scope)) )
                     => /\ req[r].pc = "done"
                        /\ req[r].res.kind = "Validation"
                        /\ AcceptConsentCalls(r) = {}

\* a consent without skip was accepted with some but not all of the
\* requested scopes
C4_Witness_PartialGrant ==
    \E r \in Tasks : \E info \in ConsentInfo(r) :
        /\ ~info.skip /\ req[r].pc = "done" /\ req[r].res.kind = "Ok"
        /\ \E call \in AcceptConsentCalls(r) :
              /\ call.grant_scope # <<>>
              /\ ScopeSet(call.grant_scope) # ScopeSet(info.requested_scope)

AcceptLoginCalls(r) == {req[r].calls[i] : i \in Called(r, "accept_login")}

\* no call to the provider failed
ProviderAnswered(r) == req[r].res.kind \notin {"Hydra", "Internal"}

\* C11: a non-skip login that has answered, with the email and password of
\* a registered user who has no enabled enrollment, the store and the
\* provider answering, has called accept_login exactly once, with the
\* user's id as subject, and its answer carries the redirect of that call.
C11_RegisteredUserLogsIn ==
    \A r \in Tasks :
        (LoginNoSkip(r) /\ req[r].pc = "done") =>
            \A u \in find_by_email(req[r].arg.email) :
                ( /\ hash_password(req[r].arg.password) \in u.password_hash
                  /\ \A row \in EnrollmentIn(user_2fa_secrets, u.id) : ~row.enabled
                  /\ req[r].res.kind # "Database"
                  /\ ProviderAnswered(r) )
                => /\ Cardinality(Called(r, "accept_login")) = 1
                   /\ \A call \in AcceptLoginCalls(r) :
                         /\ call.subject = ToString(u.id)
                         /\ call.challenge = req[r].arg.login_challenge
                         /\ req[r].res = LoginOk(RedirectFor(call))

\* a registered user without enrollment has logged in and got the redirect
C11_Witness_LoggedIn ==
    \E r \in Tasks :
        /\ LoginNoSkip(r) /\ req[r].pc = "done" /\ req[r].res.kind = "Ok"
        /\ req[r].res.redirect_to # {}
        /\ \E u \in find_by_email(req[r].arg.email) :
              /\ u.password_hash # {}
              /\ EnrollmentIn(user_2fa_secrets, u.id) = {}

\* the provider answered the request's get_login_request with skip = true
LoginSkipInfo(r) ==
    IF req[r].op # "login" THEN {}
    ELSE {info \in UNION {req[r].calls[i].info : i \in Called(r, "get_login_request")} :
            info.skip}

\* C12: a login whose get_login_request was answered with skip = true goes
\* straight to accept_login: it holds no user row and no enrollment row,
\* has read no clock for a code check, never is at authenticate or at the
\* 2FA lookup, calls accept_login with the provider's subject only, and,
\* the provider answering, answers with the redirect of that one call.
C12_SkipAcceptsAtOnce ==
    \A r \in Tasks : \A info \in LoginSkipInfo(r) :
        /\ req[r].pc \in {"accept_login_skip", "done"}
        /\ req[r].loc.user = {} /\ req[r].loc.tfa = {} /\ req[r].at = {}
        /\ Cardinality(Called(r, "accept_login")) <= 1
        /\ \A call \in AcceptLoginCalls(r) : call.subject = info.subject
        /\ (req[r].pc = "done" /\ ProviderAnswered(r)) =>
              \E call \in AcceptLoginCalls(r) :
                  req[r].res = LoginOk(RedirectFor(call))

\* a skip login was accepted although no user has the email of the request
C12_Witness_SkipAccepted ==
    \E r \in Tasks : \E info \in LoginSkipInfo(r) :
        /\ req[r].pc = "done" /\ req[r].res.kind = "Ok"
        /\ find_by_email(req[r].arg.email) = {}
        /\ AcceptLoginCalls(r) # {}

\* the task called authenticate and it refused
AuthRefused(r) == req[r].runs # {} /\ req[r].res.kind = "Authentication"

\* the row authenticate found for the task's email before the request, if any
AuthFound(r) ==
    IF req[r].op = "login" THEN {u \in pre[r].users : u.email = req[r].arg.email}
    ELSE {u \in pre[r].users : u.id = req[r].arg.user_id}

\* C13 (first half): on each of its three failure paths (no user with the
\* email, a user without password hash, a hash the password does not
\* match) authenticate returns the same Authentication("invalid_credentials").
C13_SameAuthFailure ==
    \A r \in Tasks :
        AuthRefused(r) => req[r].res = Authentication("invalid_credentials")

\* C13: a refusing authenticate returns Authentication("invalid_credentials")
\* and has run the Argon2 verification exactly once, whichever of the three
\* failure paths it took.
C13_OneVerificationOnEachFailurePath ==
    \A r \in Tasks :
        AuthRefused(r) => /\ req[r].res = Authentication("invalid_credentials")
                          /\ req[r].runs = {1}

\* each of the three failure paths has been taken: a login with an email
\* no user has
C13_Witness_UnknownEmail ==
    \E r \in Tasks : AuthRefused(r) /\ req[r].op = "login" /\ AuthFound(r) = {}

\* the task decoded a state string that came about in the given way
Decoded(r, from) == req[r].op = "decode_state" /\ req[r].arg.from = from

\* C14: decoding what encrypt_state gave for a challenge id returns that
\* challenge id, and decoding it with any one character replaced by another
\* fails with OAuthStateInvalid.
C14_StateRoundTripAndTamper ==
    \A r \in Tasks :
        /\ Decoded(r, "encrypt_state") =>
              req[r].res = [kind |-> "Ok", value |-> req[r].arg.sent.login_challenge]
        /\ Decoded(r, "alter_state") => req[r].res = Err("OAuthStateInvalid")

\* the last character of a state was replaced by one that differs from it
\* in the spare bits only, and the state was refused
C14_Witness_SpareBitsAltered ==
    \E r \in Tasks :
        /\ Decoded(r, "alter_state") /\ req[r].res = Err("OAuthStateInvalid")
        /\ req[r].arg.sent.position = Len(req[r].arg.state)
        /\ URL_SAFE_NO_PAD_decode_allowing_trailing_bits(req[r].arg.state) # {}
        /\ req[r].arg.sent.login_challenge \in LoginChallenges

\* why a state string does not decode
DecodeFailure(state) ==
    LET decoded == URL_SAFE_NO_PAD_decode(state)
        blob == CHOOSE b \in decoded : TRUE
        opened == Aes256Gcm_decrypt(state_encryption_key, SubSeq(blob, 1, 12),
                                    SubSeq(blob, 13, Len(blob)))
    IN  IF decoded = {} THEN "base64"
        ELSE IF Len(blob) < 12 THEN "short"
        ELSE IF opened = {} THEN "tag"
        ELSE IF from_utf8(CHOOSE p \in opened : TRUE) = {} THEN "utf8"
        ELSE "none"

\* C15: a state string that is no Base64url, whose blob is shorter than
\* the nonce, whose tag does not match or whose plaintext is no UTF-8 text
\* is refused with OAuthStateInvalid, and the response is 400 with the
\* same body whichever of the four it was.
C15_OneInvalidStateError ==
    \A r \in Tasks :
        (req[r].op = "decode_state" /\ DecodeFailure(req[r].arg.state) # "none") =>
            /\ req[r].res = Err("OAuthStateInvalid")
            /\ into_response(req[r].res) = [status |-> 400, error |-> "invalid request"]

\* a sealed plaintext that is no UTF-8 text was refused
C15_Witness_NotUtf8 ==
    \E r \in Tasks :
        /\ req[r].op = "decode_state" /\ DecodeFailure(req[r].arg.state) = "utf8"
        /\ req[r].res = Err("OAuthStateInvalid")

\* the provider answered a call of the task with a non-success status or
\* with a body that does not parse
ProviderRefused(r) ==
    \E i \in 1..Len(req[r].calls) : req[r].calls[i].out \in {"status", "parse"}

\* C16: a request during which the provider answered a call with a
\* non-success status or an unparsable body ends with the error of a
\* transport failure, AppError::Hydra, and its response is 502.
C16_ProviderFailureIsBadGateway ==
    \A r \in Tasks :
        (req[r].pc = "done" /\ ProviderRefused(r)) =>
            /\ req[r].res = HydraError("transport")
            /\ into_response(req[r].res).status = 502

\* get_login_request was answered with a non-success status and the
\* request has answered
C16_Witness_StatusRefused ==
    \E r \in Tasks :
        /\ Done(r, "login") /\ Len(req[r].calls) = 1
        /\ req[r].calls[1].api = "get_login_request"
        /\ req[r].calls[1].out = "status"
        /\ into_response(req[r].res).status = 500

\* both tasks have answered a reset_password call made with one token
SameTokenCalls(r1, r2) ==
    /\ r1 # r2
    /\ Done(r1, "reset_password") /\ Done(r2, "reset_password")
    /\ req[r1].arg.token = req[r2].arg.token

\* C18: of two reset_password calls that run at the same time with the
\* same token, at most one answers Ok.
C18_OneSuccessPerToken ==
    \A r1, r2 \in Tasks :
        SameTokenCalls(r1, r2) => ~(req[r1].res.kind = "Ok" /\ req[r2].res.kind = "Ok")

\* two calls with the same token overlapped, and the one that read the
\* token after it was marked was refused
C18_Witness_LoserRefused ==
    \E r1, r2 \in Tasks :
        /\ SameTokenCalls(r1, r2)
        /\ req[r1].res.kind = "Ok" /\ req[r2].res = Err("TokenExpired")
        /\ TokenRows(pre[r2].password_reset_tokens, req[r2].arg.token) # {}
        /\ \A t \in TokenRows(pre[r2].password_reset_tokens, req[r2].arg.token) :
              t.used_at = {}

\* the request ran into a unique constraint: register reports it as
\* EmailAlreadyExists, the other handlers hand the store's error on
LostUniqueWrite(r) ==
    /\ req[r].pc = "done"
    /\ \/ req[r].res = Err("EmailAlreadyExists")
       \/ req[r].res.kind = "Database" /\ "constraint" \in DOMAIN req[r].res

\* C17: a request that lost the race for a uniquely keyed write (the other
\* request's row was there when its INSERT ran) ends with a conflict error
\* of the domain, not with a database or internal error.
C17_LoserGetsDomainConflict ==
    \A r \in Tasks :
        LostUniqueWrite(r) =>
            req[r].res.kind \in {"EmailAlreadyExists", "TotpAlreadyEnabled"}

\* two registrations of one free email overlapped: one created the user,
\* the other was told EmailAlreadyExists
C17_Witness_RegisterRace ==
    \E r1, r2 \in Tasks :
        /\ Done(r1, "register") /\ Done(r2, "register")
        /\ req[r1].arg.email = req[r2].arg.email
        /\ req[r1].res.kind = "Ok" /\ req[r2].res = Err("EmailAlreadyExists")
        /\ \A u \in pre[r2].users : u.email # req[r2].arg.email

\* a register step that answers EmailAlreadyExists writes no user row
RegisterConflictWritesNothing ==
    \A r \in Tasks :
        (req[r].pc = "create_user" /\ req'[r].res = Err("EmailAlreadyExists"))
            => users' = users

\* C20: no two user rows share an email (nor an id); a register call for an
\* email that a user had when the call began, the store answering, returns
\* EmailAlreadyExists, and the step that returns it leaves users unchanged.
C20_EmailUnique ==
    /\ [](\A u1, u2 \in users : (u1.email = u2.email \/ u1.id = u2.id) => u1 = u2)
    /\ [](\A r \in Tasks :
            ( /\ Done(r, "register")
              /\ req[r].res.kind \notin {"Validation", "Database"}
              /\ \E u \in pre[r].users : u.email = req[r].arg.email )
            => /\ req[r].res = Err("EmailAlreadyExists")
               /\ \A u \in pre[r].users :
                     u.email = req[r].arg.email => u \in users)
    /\ [][RegisterConflictWritesNothing]_vars

\* register was refused for the email of a user who has no password hash
C20_Witness_SocialOnlyEmailTaken ==
    \E r \in Tasks :
        /\ Done(r, "register") /\ req[r].res = Err("EmailAlreadyExists")
        /\ \E u \in pre[r].users :
              u.email = req[r].arg.email /\ u.password_hash = {}

\* C19: whatever setup_2fa, verify_2fa and disable_2fa calls have run, one
\* after another or two at a time, no user has more than one enrollment row.
C19_OneEnrollmentPerUser ==
    \A user_id \in UserIds : Cardinality(User2fa_find_by_user_id(user_id)) <= 1

\* two setup_2fa calls of one user overlapped: both found no row, one
\* created it, the other's INSERT was refused by the primary key
C19_Witness_SecondInsertRefused ==
    \E r1, r2 \in Tasks :
        /\ Done(r1, "setup_2fa") /\ Done(r2, "setup_2fa")
        /\ req[r1].res.kind = "Ok"
        /\ req[r2].res = UniqueViolation("user_2fa_secrets_pkey")
        /\ Cardinality(User2fa_find_by_user_id(req[r2].arg.user_id)) = 1

\* the call was refused because no row has the hash of its token
RefusedUnknownToken(r) ==
    /\ Done(r, "reset_password")
    /\ req[r].res.kind \in {"TokenNotFound", "TokenExpired"}
    /\ TokenRows(pre[r].password_reset_tokens, req[r].arg.token) = {}
    /\ TokenRows(password_reset_tokens, req[r].arg.token) = {}

\* the call was refused although a row has the hash of its token: the
\* token was used or had expired
RefusedKnownToken(r) ==
    /\ Done(r, "reset_password")
    /\ req[r].res.kind \in {"TokenNotFound", "TokenExpired"}
    /\ TokenRows(pre[r].password_reset_tokens, req[r].arg.token) # {}

\* C21: the response (status and text) of a reset_password call refused
\* for a token that never existed is that of a call refused for a token
\* that exists but is used or has expired.
C21_RefusalHidesTokenExistence ==
    \A r1, r2 \in Tasks :
        (RefusedUnknownToken(r1) /\ RefusedKnownToken(r2)) =>
            into_response(req[r1].res) = into_response(req[r2].res)

\* one call was refused for a token nobody was issued, another for an
\* issued token that was used or had expired; both got status 400
C21_Witness_BothRefused ==
    \E r1, r2 \in Tasks :
        /\ RefusedUnknownToken(r1) /\ RefusedKnownToken(r2)
        /\ into_response(req[r1].res).status = 400
        /\ into_response(req[r2].res).status = 400

\* the mails the request had sent
MailsOf(r) == {req[r].calls[i] : i \in Called(r, "send_password_reset_email")}

\* C22: a request_password_reset call that validation and the store did
\* not stop answers the one success response whether or not a user has the
\* email; for an unknown email it adds no token row and sends no mail, for a
\* known one it adds exactly one row, of that user, unused, holding the hash
\* of the token and not the token that went into the mail.
C22_ResetRequestHidesEmailExistence ==
    \A r \in Tasks :
        ( /\ Done(r, "request_password_reset")
          /\ req[r].res.kind \notin {"Validation", "Database"} )
        => LET known == {u \in pre[r].users : u.email = req[r].arg.email}
               added == password_reset_tokens \ pre[r].password_reset_tokens
           IN  /\ req[r].res = [kind |-> "Ok"]
               /\ pre[r].password_reset_tokens \subseteq password_reset_tokens
               /\ IF known = {}
                  THEN added = {} /\ MailsOf(r) = {}
                  ELSE /\ Cardinality(added) = 1
                       /\ Cardinality(Called(r, "send_password_reset_email")) = 1
                       /\ \A row \in added, mail \in MailsOf(r) :
                             /\ row.token_hash = hash_token(mail.reset_url[2])
                             /\ row.token_hash[1] = "sha256"
                             /\ row.used_at = {}
                             /\ \E u \in known : row.user_id = u.id
                             /\ mail.to = req[r].arg.email

\* a token was issued for a known email and the mail was written
C22_Witness_TokenIssued ==
    \E r \in Tasks :
        /\ Done(r, "request_password_reset") /\ req[r].res = [kind |-> "Ok"]
        /\ MailsOf(r) # {}
        /\ password_reset_tokens # pre[r].password_reset_tokens

\* C23: verify_code answers Ok(false) for every code that is not six
\* ASCII digits, whatever the secret; for six digits and a Base32 secret it
\* answers Ok(true) exactly when the code is the secret's TOTP value of the
\* step of the clock or of the step before or after it, so the secret's
\* code of two steps earlier or later is refused.
C23_VerifyCodeWindow ==
    \A r \in Tasks :
        Done(r, "verify_code") =>
            LET secret == req[r].arg.secret
                code == req[r].arg.code
            IN  \A t \in req[r].at :
                  /\ ~WellFormed(code) => req[r].res = [kind |-> "Ok", value |-> FALSE]
                  /\ (WellFormed(code) /\ secret.base32 > 0) =>
                        /\ req[r].res.kind = "Ok"
                        /\ req[r].res.value =
                              (code \in {TotpGenerate(secret, t - 1),
                                         TotpGenerate(secret, t),
                                         TotpGenerate(secret, t + 1)})
                  /\ \A made \in req[r].arg.made_for :
                        (made.secret = secret /\ made.step \in {t - 2, t + 2}) =>
                            req[r].res = [kind |-> "Ok", value |-> FALSE]

\* the secret's own code of two steps ago was refused
C23_Witness_TwoStepsOldRefused ==
    \E r \in Tasks :
        /\ Done(r, "verify_code")
        /\ req[r].res = [kind |-> "Ok", value |-> FALSE]
        /\ \E t \in req[r].at, made \in req[r].arg.made_for :
              made.secret = req[r].arg.secret /\ made.step = t - 2


\* C24: an adapter is there exactly when the client id, the client secret
\* and the redirect URI of its provider are all configured; for a provider
\* without adapter the auth-url handler and the callback handler answer the
\* not-configured error at once: whatever the state parameter is, it is not
\* decoded, nothing was called and the store is as it was
Configured(provider) ==
    IF provider = "google"
    THEN config.google_client_id # {} /\ config.google_client_secret # {}
         /\ config.google_redirect_uri # {}
    ELSE config.github_client_id # {} /\ config.github_client_secret # {}
         /\ config.github_redirect_uri # {}

C24_MissingProviderAnswersNotConfigured ==
    /\ \A provider \in Providers : oauth_service(provider) # {} <=> Configured(provider)
    /\ \A r \in Tasks :
          /\ req[r].op \in {"oauth_auth", "oauth_callback"}
          /\ ~Configured(req[r].arg.provider)
          => /\ req[r].pc = "done"
             /\ req[r].res = NotConfigured(req[r].arg.provider)
             /\ req[r].calls = <<>>
             /\ Snapshot = pre[r]

C24_Witness_TamperedStateNotDecoded ==
    \E r \in Tasks :
        /\ Done(r, "oauth_callback")
        /\ req[r].arg.provider = "google"
        /\ req[r].arg.state = TamperedState
        /\ config.google_client_id # {} /\ config.google_client_secret # {}
        /\ config.google_redirect_uri = {}
        /\ req[r].res = NotConfigured("google")
        /\ oauth_service("github") # {}

\* the callback of r called exchange_code and it did not succeed
ExchangeFailed(r) ==
    /\ req[r].op = "oauth_callback" /\ Len(req[r].calls) >= 1
    /\ req[r].calls[1].api = "exchange_code" /\ req[r].calls[1].out # "ok"

\* C25: a callback whose exchange_code met a transport failure, a
\* non-success status or an unparsable body ends with OAuthProviderError,
\* which the client sees as 502, and it fetched no profile, wrote nothing
\* to the store and sent no accept_login.
C25_ExchangeFailureIsProviderError ==
    \A r \in Tasks :
        ExchangeFailed(r) =>
            /\ req[r].pc = "done"
            /\ req[r].res = OAuthCallError("transport")
            /\ into_response(req[r].res).status = 502
            /\ Len(req[r].calls) = 1
            /\ Snapshot = pre[r]

\* the token endpoint answered with a non-success status and the callback
\* has answered 401 after that one call
C25_Witness_StatusIsUnauthorized ==
    \E r \in Tasks :
        /\ ExchangeFailed(r) /\ req[r].pc = "done"
        /\ req[r].calls[1].out = "status"
        /\ req[r].res = Err("OAuthError")
        /\ into_response(req[r].res).status = 401
        /\ Len(req[r].calls) = 1 /\ Snapshot = pre[r]

\* the callback of r fetched the profile of a GitHub account that shows no
\* email
WithoutEmail(r) ==
    /\ req[r].op = "oauth_callback" /\ Len(req[r].calls) >= 2
    /\ req[r].calls[2].api = "get_user_info"
    /\ "response" \in DOMAIN req[r].calls[2]

GithubLinksBefore(r, id) ==
    {a \in pre[r].user_social_accounts : a.provider = "github" /\ a.provider_id = id}

\* C26: for a GitHub profile without public email get_user_info succeeds
\* with the email <login>@github.local, and the callback matches the
\* account by it as by any email: without a link for the GitHub id, the
\* user it signs in is the one registered with that address if there is
\* one and else a new user created with it, and the link it stores holds it.
C26_GithubPlaceholderEmail ==
    \A r \in Tasks :
        WithoutEmail(r) =>
            LET call == req[r].calls[2]
                id == call.response.id
                email == "octocat@github.local"
            IN  /\ call.response.login = "octocat"
                /\ call.out = "ok"
                /\ call.info = {[id |-> id, email |-> email]}
                /\ (req[r].pc = "done" /\ req[r].res.kind = "Redirect"
                     /\ GithubLinksBefore(r, id) = {}) =>
                       \E u \in users :
                          /\ u.email = email
                          /\ req[r].calls[3].api = "accept_login"
                          /\ req[r].calls[3].subject = ToString(u.id)
                          /\ user_social_accounts = pre[r].user_social_accounts
                                \cup {SocialAccountRow(u.id, "github", id, {email})}
                          /\ IF \E v \in pre[r].users : v.email = email
                             THEN users = pre[r].users
                             ELSE /\ users = pre[r].users \cup {u}
                                  /\ u.password_hash = {}

\* a GitHub account without email signed in for the first time and no user
\* had the placeholder address: a user was created with it
C26_Witness_UserCreatedWithPlaceholder ==
    \E r \in Tasks :
        /\ WithoutEmail(r) /\ req[r].pc = "done" /\ req[r].res.kind = "Redirect"
        /\ pre[r].users = {}
        /\ \E u \in users : u.email = "octocat@github.local" /\ u.password_hash = {}
        /\ \E a \in user_social_accounts : a.email = {"octocat@github.local"}

\* the reset_password call of r replaced the password hash of the token's
\* user by the hash of its new password, and the token it presented is
\* still unused and unexpired
ReplacedWithLiveToken(r) ==
    \E t \in TokenRows(password_reset_tokens, req[r].arg.token) :
        /\ t.used_at = {} /\ t.expires_at >= now
        /\ \E u \in users, v \in pre[r].users :
              /\ u.id = t.user_id /\ v.id = u.id
              /\ u.password_hash = {hash_password(req[r].arg.new_password)}
              /\ v.password_hash # u.password_hash

\* C27: a reset_password call that ended without success leaves no state in
\* which the password hash has been replaced by the new one while the token
\* it presented is still unused and unexpired.
C27_FailedResetKeepsTokenAndPasswordTogether ==
    \A r \in Tasks :
        (Done(r, "reset_password") /\ req[r].res.kind # "Ok") => ~ReplacedWithLiveToken(r)

\* mark_as_used failed after update_password had succeeded
C27_Witness_MarkAsUsedFailed ==
    \E r \in Tasks :
        /\ Done(r, "reset_password") /\ req[r].res = Err("Database")
        /\ ReplacedWithLiveToken(r)

\* within the request of r no endpoint was called twice
CalledOnce(r) ==
    \A i, j \in DOMAIN req[r].calls :
        i # j => req[r].calls[i].api # req[r].calls[j].api

\* a call that did not succeed is the last one of its request, and the
\* request has ended with the error of that call
FailedCallEnds(r) ==
    \A i \in DOMAIN req[r].calls :
        req[r].calls[i].out # "ok" =>
            /\ i = Len(req[r].calls)
            /\ req[r].pc = "done"
            /\ req[r].res.kind \in {"Hydra", "Internal", "OAuthProviderError", "OAuthError"}

NoAcceptWithReject(r) ==
    ~(/\ \E i \in DOMAIN req[r].calls :
             req[r].calls[i].api \in {"accept_login", "accept_consent"}
      /\ \E i \in DOMAIN req[r].calls :
             req[r].calls[i].api \in {"reject_login", "reject_consent"})

\* the step in which a call of r fails writes nothing to the store
FailingCallWritesNothing(r) ==
    (/\ Len(req'[r].calls) = Len(req[r].calls) + 1
     /\ req'[r].calls[Len(req'[r].calls)].out # "ok")
    => /\ Snapshot' = Snapshot
       /\ req'[r].pc = "done"

\* C28: within one request of login, consent or the social callback every
\* endpoint is called at most once; a call that fails is the request's
\* last, ends it with that call's error and writes nothing to the store;
\* and no request sends both an accept and a reject.
C28_NoRetryAfterFailedCall ==
    /\ [](\A r \in Tasks : CalledOnce(r) /\ FailedCallEnds(r) /\ NoAcceptWithReject(r))
    /\ [][\A r \in Tasks : FailingCallWritesNothing(r)]_vars

\* a social callback created the user and the link, and its accept_login,
\* the third call, failed: the request ended there with the rows written
C28_Witness_AcceptFailedAfterWrites ==
    \E r \in Tasks :
        /\ Done(r, "oauth_callback") /\ Len(req[r].calls) = 3
        /\ req[r].calls[3].api = "accept_login" /\ req[r].calls[3].out = "transport"
        /\ req[r].res = Err("Hydra")
        /\ users # pre[r].users
        /\ user_social_accounts # pre[r].user_social_accounts

\* the user the request of r is about (by email for login, by id for the
\* 2FA handlers) has no password hash
Passwordless(r) ==
    /\ req[r].op \in {"login", "setup_2fa", "disable_2fa"}
    /\ AuthFound(r) # {}
    /\ \A u \in AuthFound(r) : u.password_hash = {}

\* C29: authenticate returns a user only if the row has a password hash and
\* the password verifies against it, and for a row without hash it returns
\* the authentication failure whatever the password; so no password login
\* (skip aside, where no password is asked), no 2FA setup and no 2FA
\* disable of a user without password hash ends with success.
C29_NoPasswordHashNoAuthentication ==
    /\ \A email \in Emails, password \in Passwords \cup {ShortPassword} :
          LET found == find_by_email(email)
              a == authenticate(found, password)
          IN  /\ a.kind = "Ok" =>
                    /\ a.user \in users /\ a.user.email = email
                    /\ \E h \in a.user.password_hash :
                          PasswordHash_new(h) /\ h.digest = Argon2(password)
              /\ (\E u \in found : u.password_hash = {}) =>
                    a = Authentication("invalid_credentials")
    /\ \A r \in Tasks :
          (Passwordless(r) /\ req[r].pc = "done" /\ LoginSkipInfo(r) = {}) =>
              /\ req[r].res.kind # "Ok"
              /\ AcceptLoginCalls(r) = {}
              /\ req[r].runs # {} => req[r].res = Authentication("invalid_credentials")

\* the user without password hash asked for a 2FA setup with a well-formed
\* password, authenticate ran and refused, while another user has registered
\* with a password
C29_Witness_SetupRefused ==
    \E r \in Tasks :
        /\ Done(r, "setup_2fa") /\ Passwordless(r)
        /\ AuthRefused(r)
        /\ \E u \in users : u.password_hash # {}

\* C30: in a logout accept_logout is sent only as the second call, after a
\* get_logout_request for the same challenge succeeded, and at most once;
\* a logout that answers Ok has sent it once and returns the redirect of
\* that call; when get_logout_request fails no accept is sent.
C30_AcceptLogoutAfterGet ==
    \A r \in Tasks :
        req[r].op = "logout" =>
            /\ \A i \in Called(r, "accept_logout") :
                  /\ i = 2
                  /\ req[r].calls[1].api = "get_logout_request"
                  /\ req[r].calls[1].out = "ok"
                  /\ req[r].calls[1].challenge = req[r].arg.logout_challenge
                  /\ req[r].calls[i].challenge = req[r].calls[1].challenge
            /\ (req[r].pc = "done" /\ req[r].res.kind = "Ok") =>
                  /\ Called(r, "accept_logout") = {2}
                  /\ req[r].calls[2].out = "ok"
                  /\ req[r].res.redirect_to = RedirectFor(req[r].calls[2])
            /\ (Len(req[r].calls) >= 1 /\ req[r].calls[1].out # "ok") =>
                  /\ Len(req[r].calls) = 1 /\ req[r].pc = "done"
                  /\ req[r].res.kind \in {"Hydra", "Internal"}

\* a logout was accepted and answered with the redirect
C30_Witness_LogoutAccepted ==
    \E r \in Tasks :
        /\ Done(r, "logout") /\ req[r].res.kind = "Ok"
        /\ Len(req[r].calls) = 2
        /\ req[r].calls[2].api = "accept_logout"
        /\ req[r].calls[2].challenge = "logout456"

\* the verify_2fa call of r has answered Ok and its user holds an Enabled
\* enrollment
VerifiedAndEnabled(r) ==
    /\ Done(r, "verify_2fa") /\ req[r].res.kind = "Ok"
    /\ \E row \in EnrollmentIn(user_2fa_secrets, req[r].arg.user_id) : row.enabled

\* C31: with setup_2fa and verify_2fa of one user running at the same time,
\* when a verify_2fa has answered Ok the Enabled enrollment of its user
\* stores the secret its code was verified against.
C31_EnabledSecretIsTheVerifiedOne ==
    \A r \in Tasks :
        VerifiedAndEnabled(r) =>
            \A row \in EnrollmentIn(user_2fa_secrets, req[r].arg.user_id) :
                row.enabled => \E t \in req[r].at : CodeGood(row, req[r].arg.code, t)

\* a verify_2fa checked its code against a secret which a setup_2fa then
\* replaced, and enabled the new one
C31_Witness_UnverifiedSecretEnabled ==
    \E r \in Tasks :
        /\ VerifiedAndEnabled(r)
        /\ \E row \in EnrollmentIn(user_2fa_secrets, req[r].arg.user_id) :
              /\ row.enabled
              /\ \A t \in req[r].at : ~CodeGood(row, req[r].arg.code, t)
        /\ \E q \in Tasks : q # r /\ Done(q, "setup_2fa") /\ req[q].res.kind = "Ok"

\* the step is the delete of a disable_2fa of the row's user that answers
\* Ok, after the password and a code of the row's secret were checked
DisableRemoves(r, row) ==
    /\ At(r, "disable_2fa", "delete")
    /\ req'[r].pc = "done" /\ req'[r].res.kind = "Ok"
    /\ req[r].arg.user_id = row.user_id
    /\ CorrectPassword(row.user_id, req[r].arg.password)
    /\ \E t \in req[r].at : CodeGood(row, req[r].arg.code, t)

\* C32: with setup_2fa, verify_2fa and disable_2fa of one user running at
\* the same time, every step that removes or replaces an Enabled enrollment
\* is the delete of a disable_2fa that proved the password and a valid
\* code; no step of setup_2fa removes a row that is Enabled.
C32_OnlyDisableRemovesEnabled ==
    [][\A row \in user_2fa_secrets :
          (row.enabled /\ row \notin user_2fa_secrets') =>
              \E r \in Tasks : DisableRemoves(r, row)]_vars

\* a verify_2fa has enabled the enrollment which a setup_2fa had read as
\* Pending, and that setup_2fa has deleted it and is about to insert a new
\* one
C32_Witness_SetupDeletedEnabled ==
    \E r, q \in Tasks :
        /\ At(r, "setup_2fa", "create") /\ req[r].loc.tfa # {}
        /\ Done(q, "verify_2fa") /\ req[q].res.kind = "Ok"
        /\ req[q].arg.user_id = req[r].arg.user_id
        /\ EnrollmentIn(user_2fa_secrets, req[r].arg.user_id) = {}

\* the state generate_auth_url issues for a challenge id (with the nonce of
\* the callback queries)
IssuedState == [c \in LoginChallenges |-> encrypt_state(c, [i \in 1..12 |-> 0])]

\* C33: a social callback whose state does not decode ends with
\* OAuthStateInvalid without any call (no token exchange, no profile fetch,
\* no accept_login) and without a write to the store; one whose state
\* decodes sends accept_login with the challenge id the state was made for
\* and with no other.
C33_StateDecodedFirst ==
    \A r \in Tasks :
        req[r].op = "oauth_callback" =>
            /\ req[r].arg.state = TamperedState =>
                  /\ req[r].pc = "done"
                  /\ req[r].res = Err("OAuthStateInvalid")
                  /\ req[r].calls = <<>>
                  /\ Snapshot = pre[r]
            /\ \A c \in LoginChallenges :
                  req[r].arg.state = IssuedState[c] =>
                      /\ req[r].res # Err("OAuthStateInvalid")
                      /\ \A call \in AcceptLoginCalls(r) : call.challenge = c
                      /\ (req[r].pc = "done" /\ req[r].res.kind = "Redirect") =>
                            AcceptLoginCalls(r) # {}

\* a callback with an issued state was answered with the redirect of its
\* accept_login
C33_Witness_AcceptedWithChallenge ==
    \E r \in Tasks :
        /\ Done(r, "oauth_callback") /\ req[r].res.kind = "Redirect"
        /\ req[r].arg.state = IssuedState["challenge123"]
        /\ \E call \in AcceptLoginCalls(r) :
              call.challenge = "challenge123" /\ call.out = "ok"

\* the users the callback of r has created, and the links it has stored
CreatedUsers(r) == users \ pre[r].users
CreatedLinks(r) == user_social_accounts \ pre[r].user_social_accounts

\* C34: the new-user path of the social callback writes the user first and
\* the link second, not as one unit: a link is never there without its
\* user, and when the callback ends after create_social_user without
\* having stored the link, it ends with an error, the created user stays
\* in the store with no password hash and no link, and no accept_login was
\* sent.
C34_UserThenLinkNotAtomic ==
    \A r \in Tasks :
        req[r].op = "oauth_callback" =>
            /\ \A a \in CreatedLinks(r) : \E u \in users : u.id = a.user_id
            /\ (req[r].pc = "done" /\ CreatedUsers(r) # {} /\ CreatedLinks(r) = {}) =>
                  /\ req[r].res.kind = "Database"
                  /\ AcceptLoginCalls(r) = {}
                  /\ \A u \in CreatedUsers(r) :
                        /\ u.password_hash = {}
                        /\ \A a \in user_social_accounts : a.user_id # u.id

\* the insert of the link failed after the user had been created
C34_Witness_OrphanUser ==
    \E r \in Tasks :
        /\ Done(r, "oauth_callback") /\ req[r].res = Err("Database")
        /\ Cardinality(CreatedUsers(r)) = 1 /\ CreatedLinks(r) = {}
        /\ \A u \in CreatedUsers(r) :
              u.password_hash = {} /\ \A a \in user_social_accounts : a.user_id # u.id

\* the unused rows the token of r's reset_password call had when it began
UnusedRows(r) ==
    {t \in TokenRows(pre[r].password_reset_tokens, req[r].arg.token) : t.used_at = {}}

\* C35: a reset_password call with an unused token whose expires_at is
\* before the time of the check answers TokenExpired and leaves the users
\* and the tokens as they were; with expires_at equal to the time of the
\* check the token is accepted (the call answers Ok when the store does).
C35_ExpiredTokenRefused ==
    \A r \in Tasks :
        Done(r, "reset_password") =>
            \A row \in UnusedRows(r), t \in req[r].at :
                /\ row.expires_at < t =>
                      /\ req[r].res = Err("TokenExpired")
                      /\ users = pre[r].users
                      /\ password_reset_tokens = pre[r].password_reset_tokens
                /\ (row.expires_at = t /\ req[r].res.kind # "Database") =>
                      req[r].res.kind = "Ok"

\* an unused token was refused one clock period after it expired
C35_Witness_ExpiredRefused ==
    \E r \in Tasks :
        /\ Done(r, "reset_password") /\ req[r].res = Err("TokenExpired")
        /\ \E row \in UnusedRows(r) : req[r].at = {row.expires_at + 1}

\* C36: the reset tokens of a user do not touch each other: a
\* request_password_reset leaves every earlier token row as it was, a
\* reset_password that answers Ok changes no row but the one of its token,
\* and a reset_password with an unused, unexpired token answers Ok (the
\* store answering) whatever became of the user's other tokens.
C36_TokensIndependent ==
    \A r \in Tasks :
        /\ Done(r, "request_password_reset") =>
              pre[r].password_reset_tokens \subseteq password_reset_tokens
        /\ Done(r, "reset_password") =>
              /\ \A row \in pre[r].password_reset_tokens :
                    row.token_hash # hash_token(req[r].arg.token) =>
                        row \in password_reset_tokens
              /\ \A row \in UnusedRows(r), t \in req[r].at :
                    (row.expires_at >= t /\ req[r].res.kind # "Database") =>
                        req[r].res.kind = "Ok"

\* a user's second token reset the password after the first one had been
\* used
C36_Witness_SecondTokenStillWorks ==
    \E r \in Tasks :
        /\ Done(r, "reset_password") /\ req[r].res.kind = "Ok"
        /\ \E row \in UnusedRows(r), other \in pre[r].password_reset_tokens :
              /\ other.id # row.id /\ other.user_id = row.user_id
              /\ other.used_at # {}
              /\ other \in password_reset_tokens

\* the login of r is a non-skip login with the right password of a user
\* whose enrollment is Pending, and it has answered without a failure of
\* the store or the provider
PendingLogin(r, u) ==
    /\ Done(r, "login") /\ LoginNoSkip(r)
    /\ u.email = req[r].arg.email
    /\ CorrectPassword(u.id, req[r].arg.password)
    /\ \E row \in EnrollmentIn(user_2fa_secrets, u.id) : ~row.enabled
    /\ req[r].res.kind \notin {"Database", "Hydra", "Internal"}

\* C37: a Pending enrollment does not gate the login: a non-skip login
\* with the right password of a user whose enrollment is Pending sends
\* accept_login for that user and answers with its redirect, with no code,
\* with a malformed code and with a code that does not verify alike.
C37_PendingEnrollmentDoesNotGate ==
    \A r \in Tasks : \A u \in users :
        PendingLogin(r, u) =>
            /\ Cardinality(Called(r, "accept_login")) = 1
            /\ \A call \in AcceptLoginCalls(r) :
                  /\ call.subject = ToString(u.id)
                  /\ req[r].res = LoginOk(RedirectFor(call))

\* such a login went through with a malformed code
C37_Witness_MalformedCodeAccepted ==
    \E r \in Tasks : \E u \in users :
        /\ PendingLogin(r, u)
        /\ req[r].arg.code = {MalformedCode}
        /\ req[r].res.kind = "Ok" /\ req[r].res.redirect_to # {}
\* the consent request of r was answered skip = true by get_consent_request
SkippedConsent(r, info) ==
    /\ req[r].op = "consent"
    /\ info \in ConsentInfo(r)
    /\ info.skip

\* C38: when get_consent_request answers skip = true, the accept_consent
\* call of the request carries the answer's whole requested_scope and its
\* requested audience, whatever grant_scope the request sent; the request
\* is never refused with Validation for its grant_scope, and when the
\* accept is answered the request answers with its redirect.
C38_SkipGrantsAllRequested ==
    \A r \in Tasks : \A info \in ConsentInfo(r) :
        SkippedConsent(r, info) =>
            /\ \A call \in AcceptConsentCalls(r) :
                  /\ call.challenge = req[r].arg.consent_challenge
                  /\ call.grant_scope = info.requested_scope
                  /\ call.grant_access_token_audience =
                         info.requested_access_token_audience
                  /\ call.remember /\ call.remember_for = 3600
            /\ req[r].pc = "done" =>
                  /\ Cardinality(AcceptConsentCalls(r)) = 1
                  /\ req[r].res.kind # "Validation"
                  /\ \A call \in AcceptConsentCalls(r) :
                        call.out = "ok" =>
                            req[r].res = [kind |-> "Ok",
                                          redirect_to |-> RedirectFor(call)]

\* a skipped consent whose request sent a scope that was not requested was
\* accepted with the requested scope and the requested audience
C38_Witness_UnrequestedScopeIgnored ==
    \E r \in Tasks : \E info \in ConsentInfo(r) :
        /\ SkippedConsent(r, info)
        /\ req[r].pc = "done" /\ req[r].res.kind = "Ok"
        /\ validate_grant_scope(req[r].arg.grant_scope, info.requested_scope) # {}
        /\ info.requested_access_token_audience = <<"api">>
        /\ \E call \in AcceptConsentCalls(r) :
              /\ call.grant_scope = info.requested_scope
              /\ call.grant_scope # req[r].arg.grant_scope

\* C39: a state made by the generate_auth_url of either adapter decodes in
\* the callback of either provider to the challenge id it was made for, and
\* every further decoding of the same state, by either adapter, succeeds
\* with that same challenge id.
C39_StateBoundToNoProviderNorUse ==
    \A r \in Tasks :
        req[r].op = "generate_auth_url" =>
            \A i \in DOMAIN req[r].calls :
                req[r].calls[i].answer =
                    [kind |-> "Ok", value |-> req[r].arg.login_challenge]

\* a state of the Google adapter was decoded by the GitHub callback twice
\* and by the Google callback once, each time to its challenge id
C39_Witness_GoogleStateInGithubCallbackTwice ==
    \E r \in Tasks :
        /\ req[r].op = "generate_auth_url"
        /\ req[r].arg.provider = "google"
        /\ req[r].arg.login_challenge = "challenge123"
        /\ Len(req[r].calls) = 3
        /\ req[r].calls[1].provider = "github"
        /\ req[r].calls[2].provider = "github"
        /\ req[r].calls[3].provider = "google"
        /\ \A i \in 1..3 : req[r].calls[i].answer = [kind |-> "Ok", value |-> "challenge123"]

====
